---- MODULE Spec2Model ----
(***************************************************************************)
(* Koan mission queue: the mission document (missions.md), the operations  *)
(* that mutate it, the locking and persistence around them, and the        *)
(* unlocked readers.                                                       *)
(*                                                                         *)
(* A document is the sequence of its lines.  A line is a record; the       *)
(* fields that do not apply to a kind of line hold their zero value.       *)
(*   k      "title" | "blank" | "hdr" | "sub" | "item" | "none"            *)
(*          ("sub" is a `### ` complex-mission header, "item" a `- ` line, *)
(*           "none" the `(none)`/`(aucune)` placeholder)                   *)
(*   sec    section of a header: Pending, InProgress, Done, Failed         *)
(*   fr     header or placeholder written in its French alias              *)
(*   id     the mission text of an item or a `### ` header                 *)
(*   tag    project named by the item's tag ("": the line has no tag)      *)
(*   sp     how the tag is spelled: "project" ([project:X]) or "projet"    *)
(*   st     the lifecycle stamps at the end of the line, in the order they *)
(*          are written; a stamp is [g |-> glyph, t |-> time], the glyph   *)
(*          "queued", "started", "done" (success) or "failed"              *)
(*   struck the item is fully struck through (`- ~~...~~`)                 *)
(*   box    the item is written `- [ ] text` (chat bridge)                 *)
(***************************************************************************)
EXTENDS Integers, Sequences, FiniteSets, TLC

\* ------------------------------------------------------------------ bounds
MaxMissions == 2
MaxClock == 2
NumProducers == 2
MaxLines == 2

Missions == 1..MaxMissions
Sections == {"Pending", "InProgress", "Done", "Failed"}

\* -------------------------------------------------------------- the lines
Blank == [k |-> "blank", sec |-> "", fr |-> FALSE, id |-> 0, tag |-> "",
          sp |-> "", st |-> << >>, struck |-> FALSE, box |-> FALSE]

Title == [Blank EXCEPT !.k = "title"]

Hdr(sec, fr) == [Blank EXCEPT !.k = "hdr", !.sec = sec, !.fr = fr]

Sub(m) == [Blank EXCEPT !.k = "sub", !.id = m]

Item(m) == [Blank EXCEPT !.k = "item", !.id = m]

Struck(m) == [Blank EXCEPT !.k = "item", !.id = m, !.struck = TRUE]

NonePlaceholder(fr) == [Blank EXCEPT !.k = "none", !.fr = fr]

\* A line the queue does not know (free text a human wrote), number n.
Raw(n) == [Blank EXCEPT !.k = "text", !.id = n]

\* "- [project:X] text" (sp = "project") or "- [projet:X] text".
Tagged(m, sp, tag) == [Blank EXCEPT !.k = "item", !.id = m, !.sp = sp, !.tag = tag]

\* A lifecycle stamp: the glyph and the time written after it.
Stamp(g, t) == [g |-> g, t |-> t]

\* The stamps of `line` whose glyph is in G, in the order they stand.
Stamps(line, G) == SelectSeq(line.st, LAMBDA x : x.g \in G)

\* `line` with the stamp <<g, t>> appended to its text.
WithStamp(line, g, t) == [line EXCEPT !.st = Append(@, Stamp(g, t))]

\* "# Missions\n\n## Pending\n\n## In Progress\n\n## Done\n"
MISSIONS_DEFAULT ==
    << Title, Blank, Hdr("Pending", FALSE), Blank, Hdr("InProgress", FALSE),
       Blank, Hdr("Done", FALSE) >>

\* ----------------------------------------------------- document structure
Min(S) == CHOOSE i \in S : \A j \in S : i <= j

Max(S) == CHOOSE i \in S : \A j \in S : j <= i

\* Index of the first line of d in the set of indices S, 0 when S is empty.
First(S) == IF S = {} THEN 0 ELSE Min(S)

HdrIdx(d, sec) == First({i \in 1..Len(d) : d[i].k = "hdr" /\ d[i].sec = sec})

\* Last line of the section whose header is line h (h > 0).
SecEnd(d, h) ==
    LET nxt == {i \in (h+1)..Len(d) : d[i].k = "hdr"}
    IN  IF nxt = {} THEN Len(d) ELSE Min(nxt) - 1

\* The section line i lies in ("" before the first header).
SectionOf(d, i) ==
    LET hs == {h \in 1..i : d[h].k = "hdr"}
    IN  IF hs = {} THEN "" ELSE d[Max(hs)].sec

RemoveAt(d, i) == SubSeq(d, 1, i-1) \o SubSeq(d, i+1, Len(d))

\* A splice that writes over line j instead of opening the text before it.
InsertOver(d, j, ins) == SubSeq(d, 1, j-1) \o ins \o SubSeq(d, j+1, Len(d))

\* d with the lines ins placed before line j (j = Len(d)+1 appends).
InsertAt(d, j, ins) == SubSeq(d, 1, j-1) \o ins \o SubSeq(d, j, Len(d))

\* Line i is a sub-item of a `### ` block: the run of item lines it belongs
\* to starts directly under a `### ` header.
InComplex(d, i) ==
    \E h \in 1..(i-1) :
        /\ d[h].k = "sub"
        /\ \A j \in (h+1)..i : d[j].k = "item"

\* A flat mission entry: a top-level `- ` line.
IsFlat(d, i) == d[i].k = "item" /\ ~InComplex(d, i)

\* Indices of the flat entries of section sec.
FlatIn(d, sec) == {i \in 1..Len(d) : IsFlat(d, i) /\ SectionOf(d, i) = sec}

\* Indices of the lines that carry mission m as a flat entry.
Where(d, m) == {i \in 1..Len(d) : IsFlat(d, i) /\ d[i].id = m}

\* ------------------------------------------------ document transformations
\* An emptiness test that takes the empty string only.
IsEmptyString(d) == Len(d) = 0

\* `not content.strip()`: nothing but blank lines.
IsEmptyDoc(d) == \A i \in 1..Len(d) : d[i].k = "blank"

\* app.missions.normalize_content: runs of blank lines collapse to one
\* blank line; every other line is kept as it is.
normalize_content(d) ==
    LET keep == {i \in 1..Len(d) : ~(d[i].k = "blank" /\ i > 1 /\ d[i-1].k = "blank")}
        F[i \in 0..Len(d)] ==
            IF i = 0 THEN << >>
            ELSE IF i \in keep THEN Append(F[i-1], d[i]) ELSE F[i-1]
    IN  F[Len(d)]

\* A marker search that knows the English header only.
PendingMarkerEnglish(d) ==
    First({i \in 1..Len(d) : d[i].k = "hdr" /\ d[i].sec = "Pending" /\ ~d[i].fr})

\* The marker insert_pending_mission picks: the first "## Pending", and
\* only when there is none the first "## En attente"; 0 when neither.
PendingMarker(d) ==
    LET en == {i \in 1..Len(d) : d[i].k = "hdr" /\ d[i].sec = "Pending" /\ ~d[i].fr}
        fr == {i \in 1..Len(d) : d[i].k = "hdr" /\ d[i].sec = "Pending" /\ d[i].fr}
    IN  IF en # {} THEN Min(en) ELSE First(fr)

\* The text part of insert_pending_mission: idx runs past the marker and
\* the newlines that follow it, "\n{entry}\n" goes in there; without a
\* marker "\n## Pending\n\n{entry}\n" goes at the end.
\* As InsertPendingContent, but an entry line found at idx is overwritten
\* instead of pushed down (content[idx + 1:] for content[idx:]).
InsertPendingOverwrite(content, entry) ==
    LET c == IF IsEmptyDoc(content) THEN MISSIONS_DEFAULT ELSE content
        h == PendingMarker(c)
        nb == {i \in (h+1)..Len(c) : c[i].k # "blank"}
        idx == IF nb = {} THEN Len(c) + 1 ELSE Min(nb)
        rest == IF idx <= Len(c) /\ c[idx].k = "item" THEN RemoveAt(c, idx) ELSE c
    IN  normalize_content(
            IF h # 0
            THEN InsertAt(rest, idx, << Blank, entry >>)
            ELSE c \o << Blank, Hdr("Pending", FALSE), Blank, entry >>)

InsertPendingContent(content, entry) ==
    LET c == IF IsEmptyDoc(content) THEN MISSIONS_DEFAULT ELSE content
        h == PendingMarker(c)
        nb == {i \in (h+1)..Len(c) : c[i].k # "blank"}
        idx == IF nb = {} THEN Len(c) + 1 ELSE Min(nb)
    IN  normalize_content(
            IF h # 0
            THEN InsertAt(c, idx, << Blank, entry >>)
            ELSE c \o << Blank, Hdr("Pending", FALSE), Blank, entry >>)

\* ---- app.missions and recover.py (their code is not part of src/)
\* d with `line` as the last entry of section sec; a missing section is
\* created at the end of the document.
AppendToSection(d, sec, line) ==
    LET h == HdrIdx(d, sec)
        p == Max({i \in h..SecEnd(d, h) : d[i].k # "blank"})
    IN  IF h = 0
        THEN d \o << Blank, Hdr(sec, FALSE), Blank, line >>
        ELSE InsertAt(d, p + 1, IF p = h THEN << Blank, line >> ELSE << line >>)

\* d with `line` as the first entry of section sec.
PrependToSection(d, sec, line) ==
    LET h == HdrIdx(d, sec)
    IN  IF h = 0
        THEN d \o << Blank, Hdr(sec, FALSE), Blank, line >>
        ELSE InsertAt(d, h + 1, << Blank, line >>)

\* d without the `(none)` / `(aucune)` placeholder lines of Pending.
RemovePlaceholder(d) ==
    LET F[i \in 0..Len(d)] ==
            IF i = 0 THEN << >>
            ELSE IF d[i].k = "none" /\ SectionOf(d, i) = "Pending"
                 THEN F[i-1] ELSE Append(F[i-1], d[i])
    IN  F[Len(d)]

\* A stamp_queued that appends its stamp whatever the line carries.
stamp_queued_always(line, t) == WithStamp(line, "queued", t)

\* stamp_queued(entry): the queued stamp is appended unless the text
\* already carries one.
stamp_queued(line, t) ==
    IF Stamps(line, {"queued"}) = << >> THEN WithStamp(line, "queued", t) ELSE line

stamp_started(line, t) ==
    IF Stamps(line, {"started"}) = << >> THEN WithStamp(line, "started", t) ELSE line

stamp_completed(line, t, ok) ==
    IF Stamps(line, {"done", "failed"}) = << >>
    THEN WithStamp(line, IF ok THEN "done" ELSE "failed", t)
    ELSE line

insert_mission(d, entry, urgent, now) ==
    LET c == RemovePlaceholder(IF IsEmptyDoc(d) THEN MISSIONS_DEFAULT ELSE d)
        e == stamp_queued(entry, now)
    IN  normalize_content(
            IF urgent THEN PrependToSection(c, "Pending", e)
            ELSE AppendToSection(c, "Pending", e))

\* A match that looks for the text in every section.
FindAnywhere(d, sec, m) ==
    First({i \in 1..Len(d) : IsFlat(d, i) /\ d[i].id = m /\ ~d[i].struck})

\* The first flat entry of section sec whose text matches m, 0 when none.
FindIn(d, sec, m) == First({i \in FlatIn(d, sec) : d[i].id = m /\ ~d[i].struck})

MoveStamped(d, i, sec, line) ==
    normalize_content(AppendToSection(RemoveAt(d, i), sec, line))

start_mission(d, m, now) ==
    LET i == FindIn(d, "Pending", m)
    IN  IF i = 0 THEN d
        ELSE MoveStamped(d, i, "InProgress", stamp_started(d[i], now))

\* The first unstruck sub-item of a `### ` block of section sec whose text
\* matches m, 0 when none.
FindSub(d, sec, m) ==
    First({i \in 1..Len(d) : /\ d[i].k = "item" /\ InComplex(d, i)
                              /\ SectionOf(d, i) = sec
                              /\ d[i].id = m /\ ~d[i].struck})

\* The `### ` line of the block sub-item i belongs to, and the last
\* sub-item of the block that starts at line h.
BlockHead(d, i) == Max({h \in 1..(i-1) : d[h].k = "sub"})

BlockEnd(d, h) == Max({e \in h..Len(d) : \A j \in (h+1)..e : d[j].k = "item"})

\* d with the lines `block` as the last lines of section sec.
AppendBlock(d, sec, block) ==
    LET h == HdrIdx(d, sec)
        p == Max({i \in h..SecEnd(d, h) : d[i].k # "blank"})
    IN  IF h = 0
        THEN d \o << Blank, Hdr(sec, FALSE), Blank >> \o block
        ELSE InsertAt(d, p + 1, << Blank >> \o block)

MoveBlock(d, h, e, sec) ==
    normalize_content(
        AppendBlock(SubSeq(d, 1, h-1) \o SubSeq(d, e+1, Len(d)), sec, SubSeq(d, h, e)))

\* A completion that moves the block as soon as one sub-item is struck.
CompleteSubEager(d, i, sec) ==
    LET s == [d EXCEPT ![i].struck = TRUE]
    IN  MoveBlock(s, BlockHead(d, i), BlockEnd(d, BlockHead(d, i)), sec)

\* Sub-item i of a complex block is struck through; the block moves to
\* section sec when every sub-item of it is struck now, and stays where
\* it is otherwise.
CompleteSub(d, i, sec) ==
    LET s == [d EXCEPT ![i].struck = TRUE]
        h == BlockHead(d, i)
        e == BlockEnd(d, h)
    IN  IF \A j \in (h+1)..e : s[j].struck THEN MoveBlock(s, h, e, sec) ELSE s

\* complete_mission and fail_mission: the first line of In Progress that
\* matches, a flat entry or a sub-item of a complex block.
Finish(d, m, now, ok) ==
    LET i == FindIn(d, "InProgress", m)
        j == FindSub(d, "InProgress", m)
        sec == IF ok THEN "Done" ELSE "Failed"
    IN  IF i # 0 /\ (j = 0 \/ i < j)
        THEN MoveStamped(d, i, sec, stamp_completed(d[i], now, ok))
        ELSE IF j # 0 THEN CompleteSub(d, j, sec)
        ELSE d

complete_mission(d, m, now) == Finish(d, m, now, TRUE)

fail_mission(d, m, now) == Finish(d, m, now, FALSE)

\* The entries the recovery sweep takes: flat, unstruck, in In Progress.
Stale(d) == {i \in FlatIn(d, "InProgress") : ~d[i].struck}

\* d without the lines whose index is in S.
Without(d, S) ==
    LET F[i \in 0..Len(d)] ==
            IF i = 0 THEN << >>
            ELSE IF i \in S THEN F[i-1] ELSE Append(F[i-1], d[i])
    IN  F[Len(d)]

\* The lines of d whose index is in S, in order.
Pick(d, S) == Without(d, (1..Len(d)) \ S)

\* The lines of section sec, in order.
LinesOf(d, sec) ==
    LET F[i \in 0..Len(d)] ==
            IF i = 0 THEN << >>
            ELSE IF SectionOf(d, i) = sec /\ d[i].k # "hdr"
                 THEN Append(F[i-1], d[i]) ELSE F[i-1]
    IN  F[Len(d)]

InSeq(x, sq) == \E i \in 1..Len(sq) : sq[i] = x

\* A recovered line that keeps every stamp it carries.
KeepStamps(line) == line

\* A recovered line: the queued stamp stays, the started stamp goes.
Unstart(line) == [line EXCEPT !.st = SelectSeq(@, LAMBDA x : x.g # "started")]

\* A reinsertion that does not look at what Pending already holds.
RECURSIVE ReinsertAll(_, _)
ReinsertAll(d, lines) ==
    IF lines = << >> THEN d
    ELSE ReinsertAll(AppendToSection(d, "Pending", Unstart(Head(lines))), Tail(lines))

\* The recovered lines go to the end of Pending, one by one; a line that
\* Pending already holds verbatim is not inserted again.
RECURSIVE Reinsert(_, _)
Reinsert(d, lines) ==
    IF lines = << >> THEN d
    ELSE LET l == Unstart(Head(lines))
         IN  Reinsert(IF InSeq(l, LinesOf(d, "Pending")) THEN d
                      ELSE AppendToSection(d, "Pending", l),
                      Tail(lines))

\* The sweep over the entries S of d, reporting n.
RecoverWith(d, S, n) ==
    IF S = {} THEN << d, 0 >>
    ELSE << normalize_content(Reinsert(RemovePlaceholder(Without(d, S)), Pick(d, S))), n >>

\* A sweep that stops after the first stale entry.
recover_first_only(d) ==
    LET S == IF Stale(d) = {} THEN {} ELSE {Min(Stale(d))}
    IN  RecoverWith(d, S, Cardinality(S))

\* A sweep that counts every flat entry of In Progress, struck or not.
recover_counts_struck(d) ==
    IF Stale(d) = {} THEN << d, 0 >>
    ELSE RecoverWith(d, Stale(d), Cardinality(FlatIn(d, "InProgress")))

\* A sweep that takes every "- " line of In Progress, sub-items and
\* struck-through entries included.
recover_every_item(d) ==
    LET S == {i \in 1..Len(d) : d[i].k = "item" /\ SectionOf(d, i) = "InProgress"}
    IN  RecoverWith(d, S, Cardinality(Stale(d)))

recover_content(d) == RecoverWith(d, Stale(d), Cardinality(Stale(d)))

\* str.lower() on the project names that occur.
lower(name) ==
    CASE name = "Koan" -> "koan"
      [] name = "WEB"  -> "web"
      [] OTHER         -> name

\* re.search(r"\[projet?:([a-zA-Z0-9_-]+)\]", line): the project named by
\* the tag when the pattern finds it, "" when it finds none.  `t?` makes
\* the t optional, so the pattern reads "[proje:" and "[projet:".
tag_match(line) ==
    IF line.tag # "" /\ line.sp \in {"proje", "projet"} THEN line.tag ELSE ""

\* The `grep -m1 "^- "` that extract_next_mission replaced: the first "- "
\* line of the document, whatever its section.
extract_any_section(d, project_name) == First({i \in 1..Len(d) : d[i].k = "item"})

\* extract_next_mission's loop from line i on, in_pending being inp: the
\* index of the line it returns, 0 for the empty string.  A Pending header
\* (either spelling) turns in_pending on, any other `## ` header ends the
\* scan once it is on; a line starting with "- " is returned unless the
\* filter is set and the tag pattern finds another project's name on it.
RECURSIVE ExtractScan(_, _, _, _)
ExtractScan(d, i, inp, project_name) ==
    IF i > Len(d) THEN 0
    ELSE IF d[i].k = "hdr" /\ d[i].sec = "Pending"
         THEN ExtractScan(d, i + 1, TRUE, project_name)
    ELSE IF d[i].k = "hdr"
         THEN (IF inp THEN 0 ELSE ExtractScan(d, i + 1, inp, project_name))
    ELSE IF ~inp THEN ExtractScan(d, i + 1, inp, project_name)
    ELSE IF d[i].k # "item" THEN ExtractScan(d, i + 1, inp, project_name)
    ELSE IF /\ project_name # ""
            /\ tag_match(d[i]) # ""
            /\ lower(tag_match(d[i])) # lower(project_name)
         THEN ExtractScan(d, i + 1, inp, project_name)
    ELSE i

\* extract_next_mission(missions_path, project_name) on a file that exists.
extract_next_mission(d, project_name) == ExtractScan(d, 1, FALSE, project_name)

\* recover_missions(instance_dir): <<document, count>>; without a
\* missions.md there is nothing to do.
recover_missions(exists, d) == IF exists THEN recover_content(d) ELSE << d, 0 >>

\* ------------------------------------------------------------------ state
VARIABLES
    doc,        \* the mission document, as the operations leave it
    present,    \* the document file exists
    now,        \* the wall clock, in minutes
    cons,       \* the consumer process: "down" | "up"
    queued,     \* queued[m]: how many times mission m was inserted
    ret,        \* what the last recovery sweep returned
    last,       \* the last call made on the document: <<operation, mission>>; for
                \* a sweep <<"recover", what the sweep directly before it
                \* returned>>, -1 when the call before it was not a sweep
    filter,     \* the project_name the consumer passes to extract_next_mission
    found,      \* what extract_next_mission returned: <<the line>>, << >> for ""
    shown,      \* what the status display last made of a mission line
    \* -- the file system and the processes around the document file
    path,       \* inode behind instance/missions.md, 0 when the file is absent
    disk,       \* disk[i]: the lines inode i holds
    temps,      \* inodes of the .koan-* temporary files present in the directory
    flock,      \* flock[i]: the agent holding LOCK_EX on inode i, 0 when free
    mutex,      \* mutex[p]: the thread of process p holding _MISSIONS_LOCK, 0 when free
    sameProc,   \* the producers are threads of one process (else one process each)
    pc,         \* pc[a]: where agent a stands in its call
    fd,         \* fd[a]: the inode agent a has open, 0 when none
    buf,        \* buf[a]: the content agent a computed and has not yet flushed
    op,         \* the consumer's operation: "start" | "complete" | "fail" | "recover"
    lockOrder,  \* the agents that took the file lock, in the order they took it
    persisted,  \* the documents finished mutations persisted (and the initial one)
    obs,        \* what the unlocked reader last read
    tmp,        \* the inode of the consumer's temporary file, 0 when none
    \* -- the notifications (app/notify.py)
    clock,      \* time.time(), in seconds
    ticks,      \* how many times the model let time pass
    flood_last_message,  \* _flood_last_message
    flood_last_sent_at,  \* _flood_last_sent_at
    flood_warning_sent,  \* _flood_warning_sent
    tg,         \* the calls of send_telegram so far: text, time, what went to
                \* the Telegram API ("message" | "warning" | "none"), value returned
    \* -- the posts to X (app/x_post.py)
    cfg,        \* the `x` section of config.yaml
    names,      \* the project names screen_content blocks
    cooldown,   \* .x-cooldown.json: the posts of the last 24 hours
    breaker,    \* .x-circuit-breaker.json
    x_pending,  \* x-pending.jsonl, oldest first
    xlog,       \* the requests made to the X API so far: text, time, outcome, caller
    xp          \* per process: the function it runs, where it is in it, its locals

\* The state of the notifications; no operation on the mission document
\* touches it.
notifyvars == << flood_last_message, flood_last_sent_at, flood_warning_sent, tg >>

\* The state of the posts to X.
xvars == << cfg, names, cooldown, breaker, x_pending, xlog, xp >>

outvars == << clock, ticks, notifyvars, xvars >>

seqvars == << doc, present, now, cons, queued, ret, last, filter, found, shown, outvars >>

concvars == << path, disk, temps, flock, mutex, sameProc, pc, fd, buf, op,
               lockOrder, persisted, obs, tmp, outvars >>

\* The mission document and everything around it.
queuevars == << doc, present, now, cons, queued, ret, last, filter, found, shown,
                path, disk, temps, flock, mutex, sameProc, pc, fd, buf, op,
                lockOrder, persisted, obs, tmp >>

vars == << doc, present, now, cons, queued, ret, last, filter, found, shown, path, disk, temps, flock, mutex,
           sameProc, pc, fd, buf, op, lockOrder, persisted, obs, tmp,
           clock, ticks, flood_last_message, flood_last_sent_at, flood_warning_sent, tg,
           cfg, names, cooldown, breaker, x_pending, xlog, xp >>

\* The agents: the producers 1..NumProducers (skill handlers, the GitHub
\* command handler), the chat bridge, the consumer.
Producers == 1..NumProducers
Bridge == NumProducers + 1
Consumer == NumProducers + 2
Agents == 1..(NumProducers + 2)

\* What the reader gets when there is no file.
Absent == << [Blank EXCEPT !.k = "absent"] >>

\* The reader has not read yet.
NotRead == << [Blank EXCEPT !.k = "unread"] >>

\* No call was made yet.
NoCall == << "none", 0 >>

\* extract_next_mission was not called yet.
NotCalled == << [Blank EXCEPT !.k = "uncalled"] >>

\* The status display has shown nothing yet.
NotShown == [timing |-> << "unshown" >>, suffix |-> FALSE]

IdleSeq == last = NoCall /\ filter = "" /\ found = NotCalled /\ shown = NotShown

\* reset_flood_state(), the state the module is imported with; no call yet.
IdleNotify ==
    /\ flood_last_message = "" /\ flood_last_sent_at = 0 /\ flood_warning_sent = FALSE
    /\ tg = << >>

\* The processes that post to X.
XProcs == { 1, 2 }

\* A process that runs none of the functions of x_post.
XIdle == [ fn |-> "none", pc |-> "idle", text |-> "", status |-> "none", msg |-> "" ]

\* _get_x_config's defaults; none of the state files exists, no call yet.
IdleX ==
    /\ cfg = [ require_approval |-> TRUE, content_screening |-> TRUE ]
    /\ names = {}
    /\ cooldown = << >>
    /\ breaker = [ failures |-> 0, disabled_until |-> 0 ]
    /\ x_pending = << >>
    /\ xlog = << >>
    /\ xp = [ p \in XProcs |-> XIdle ]

IdleOut ==
    /\ clock = 0 /\ ticks = 0
    /\ IdleNotify
    /\ IdleX

IdleConc ==
    /\ path = 0 /\ disk = << >> /\ temps = {}
    /\ flock = << >> /\ mutex = [p \in Agents |-> 0]
    /\ sameProc = FALSE
    /\ pc = [a \in Agents |-> "idle"]
    /\ fd = [a \in Agents |-> 0]
    /\ buf = [a \in Agents |-> << >>]
    /\ op = "none"
    /\ lockOrder = << >>
    /\ persisted = {}
    /\ obs = NotRead
    /\ tmp = 0

\* A document a crashed consumer and a human editor left behind: French
\* headers, the placeholder in Pending, and in In Progress a complex block
\* (one sub-item struck, one not), a struck flat entry and a flat entry.
FrenchDoc ==
    << Title, Blank, Hdr("Pending", TRUE), Blank, NonePlaceholder(TRUE), Blank,
       Hdr("InProgress", TRUE), Blank,
       Sub(0), Struck(0), Item(0), Blank,
       Struck(2), WithStamp(WithStamp(Item(1), "queued", 1), "started", 1), Blank,
       Hdr("Done", TRUE) >>

InitDocs == { MISSIONS_DEFAULT, FrenchDoc }

Init ==
    /\ present \in BOOLEAN
    /\ doc \in IF present THEN InitDocs ELSE {<< >>}
    /\ now = 1
    /\ cons = "down"
    /\ queued = [m \in Missions |-> Cardinality(Where(doc, m))]
    /\ ret = 0
    /\ IdleSeq
    /\ IdleOut
    /\ IdleConc

\* ------------------------------------------------------------- operations
\* The entry text a producer passes for mission m: "- text", or, when
\* pre > 0, "- text" already carrying the queued stamp of time pre.
Entry(m, pre) == IF pre = 0 THEN Item(m) ELSE WithStamp(Item(m), "queued", pre)

\* A producer (skill handler, GitHub command handler) queues mission m
\* through insert_pending_mission.
Insert(m, pre) ==
    /\ queued[m] = 0
    /\ doc' = InsertPendingContent(doc, Entry(m, pre))
    /\ present' = TRUE
    /\ queued' = [queued EXCEPT ![m] = @ + 1]
    /\ last' = << "insert_pending_mission", m >>
    /\ UNCHANGED << now, cons, ret, filter, found, shown >>
    /\ UNCHANGED concvars

\* A producer queues mission m through app.missions.insert_mission.
InsertMission(m, urgent, pre) ==
    /\ queued[m] = 0
    /\ doc' = insert_mission(doc, Entry(m, pre), urgent, now)
    /\ present' = TRUE
    /\ queued' = [queued EXCEPT ![m] = @ + 1]
    /\ last' = << IF urgent THEN "insert_mission_urgent" ELSE "insert_mission", m >>
    /\ UNCHANGED << now, cons, ret, filter, found, shown >>
    /\ UNCHANGED concvars

\* Consumer startup: the recovery sweep runs once, then the run loop.
Startup ==
    /\ cons = "down"
    /\ cons' = "up"
    /\ doc' = recover_missions(present, doc)[1]
    /\ ret' = recover_missions(present, doc)[2]
    /\ last' = << "recover", IF last[1] = "recover" THEN ret ELSE -1 >>
    /\ UNCHANGED << present, now, queued, filter, found, shown >>
    /\ UNCHANGED concvars

Start(m) ==
    /\ cons = "up" /\ present
    /\ doc' = start_mission(doc, m, now)
    /\ last' = << "start", m >>
    /\ UNCHANGED << present, now, cons, queued, ret, filter, found, shown >>
    /\ UNCHANGED concvars

Complete(m) ==
    /\ cons = "up" /\ present
    /\ doc' = complete_mission(doc, m, now)
    /\ last' = << "complete", m >>
    /\ UNCHANGED << present, now, cons, queued, ret, filter, found, shown >>
    /\ UNCHANGED concvars

Fail(m) ==
    /\ cons = "up" /\ present
    /\ doc' = fail_mission(doc, m, now)
    /\ last' = << "fail", m >>
    /\ UNCHANGED << present, now, cons, queued, ret, filter, found, shown >>
    /\ UNCHANGED concvars

\* The consumer process dies (or is stopped); whatever it had started
\* stays where it is.
Crash ==
    /\ cons = "up"
    /\ cons' = "down"
    /\ UNCHANGED << doc, present, now, queued, ret, last, filter, found, shown >>
    /\ UNCHANGED concvars

\* A clock that is set to another time, earlier or later.
ClockSet ==
    /\ \E t \in 1..MaxClock : t # now /\ now' = t
    /\ UNCHANGED << doc, present, cons, queued, ret, last, filter, found, shown >>
    /\ UNCHANGED concvars

Tick ==
    /\ now < MaxClock
    /\ now' = now + 1
    /\ UNCHANGED << doc, present, cons, queued, ret, last, filter, found, shown >>
    /\ UNCHANGED concvars

\* The calls on the missions of M.
NextFor(M) ==
    \/ \E m \in M, pre \in 0..now : Insert(m, pre)
    \/ \E m \in M, u \in BOOLEAN, pre \in 0..now : InsertMission(m, u, pre)
    \/ Startup
    \/ \E m \in M : Start(m)
    \/ \E m \in M : Complete(m)
    \/ \E m \in M : Fail(m)
    \/ Crash

Next == NextFor(Missions)

Spec == Init /\ [][Next]_vars

\* The same operations with a running clock, for what depends on the
\* values of the stamps; a line's stamps depend on no other line, and one
\* mission goes through its life, next to what the initial document holds.
NextClock == NextFor({1}) \/ Tick

SpecClock == Init /\ [][NextClock]_vars

\* ------------------------------------------------- the queue, sequentially
\* The section mission m is in: that of its first flat entry, "none"
\* when the document has no flat entry for m.
SecOf(d, m) == IF Where(d, m) = {} THEN "none" ELSE SectionOf(d, Min(Where(d, m)))

NonBlank(sq) == SelectSeq(sq, LAMBDA l : l.k # "blank")

Count(x, sq) == Cardinality({i \in 1..Len(sq) : sq[i] = x})

IsRecover == cons = "down" /\ cons' = "up" /\ present

C7_Moves ==
    [][ /\ extract_next_mission(doc, "") # 0 =>
               SectionOf(doc, extract_next_mission(doc, "")) = "Pending"
        /\ \A m \in Missions :
            LET a == SecOf(doc, m)
                b == SecOf(doc', m)
            IN  a # b =>
                  \/ a = "none" /\ b = "Pending"
                  \/ a = "Pending" /\ b = "InProgress" /\ Start(m)
                  \/ a = "InProgress" /\ b = "Done" /\ Complete(m)
                  \/ a = "InProgress" /\ b = "Failed" /\ Fail(m)
                  \/ a = "InProgress" /\ b = "Pending" /\ IsRecover ]_vars

C7_Witness ==
    /\ \E m \in Missions : SecOf(doc, m) = "Failed" /\ Stamps(doc[Min(Where(doc, m))], {"started"}) # << >>
    /\ \E m \in Missions : SecOf(doc, m) = "InProgress" /\ ~doc[Min(Where(doc, m))].struck
    /\ extract_next_mission(doc, "") = 0

\* C8: a consumer crash leaves a started mission in In Progress with its
\* started stamp, and the recovery sweep of the next startup returns every
\* flat unstruck entry of In Progress to Pending: none is left there.
C8_CrashThenRecover ==
    [][ /\ (cons = "up" /\ cons' = "down") => doc' = doc
        /\ IsRecover =>
              /\ Stale(doc') = {}
              /\ \A i \in Stale(doc) :
                    /\ InSeq(Unstart(doc[i]), LinesOf(doc', "Pending"))
                    /\ SecOf(doc', doc[i].id) = "Pending" ]_vars

C8_Witness ==
    /\ cons = "up" /\ ret = 2
    /\ \A m \in Missions : SecOf(doc, m) = "Pending"
    /\ doc[HdrIdx(doc, "Pending")].fr = FALSE

C10_RecoverFrame ==
    [][ IsRecover =>
          LET keep == {i \in 1..Len(doc) :
                          /\ SectionOf(doc, i) = "InProgress"
                          /\ i \notin Stale(doc)}
          IN  /\ NonBlank(LinesOf(doc', "InProgress")) = NonBlank(LinesOf(Pick(doc, keep), "InProgress"))
              /\ \A i \in 1..Len(doc) : \A j \in 1..Len(doc') :
                    (i \in keep /\ doc[i].k = "item" /\ InComplex(doc, i)
                        /\ doc'[j] = doc[i] /\ SectionOf(doc', j) = "InProgress")
                    => InComplex(doc', j)
              /\ ret' = Cardinality(Stale(doc)) ]_vars

C10_Witness ==
    /\ cons = "up" /\ ret = 1
    /\ \E i \in 1..Len(doc) : doc[i].k = "sub" /\ SectionOf(doc, i) = "InProgress"
    /\ \E i \in 1..Len(doc) :
          doc[i].k = "item" /\ InComplex(doc, i) /\ ~doc[i].struck
    /\ \E i \in FlatIn(doc, "InProgress") : doc[i].struck
    /\ SecOf(doc, 1) = "Pending"

\* --------------------------------------------- the sweep on any document
\* The sequences of at most n elements of A.
SeqsUpTo(A, n) == UNION {[1..k -> A] : k \in 0..n}

\* _missions(pending, in_progress) of test_recover.py, in either language.
DocOf(fr, pending, in_progress) ==
    << Title, Blank, Hdr("Pending", fr), Blank >> \o pending
       \o << Blank, Hdr("InProgress", fr), Blank >> \o in_progress
       \o << Blank, Hdr("Done", fr) >>

\* What the sweep may find in Pending and in In Progress: entries with and
\* without stamps, the same text on both sides, struck-through entries.
RecoverPending == { Item(1), Entry(1, 1), Item(2) }

RecoverStarted ==
    { Item(1), WithStamp(Item(1), "started", 1), WithStamp(Entry(1, 1), "started", 1),
      Struck(2) }

RecoverDocs ==
    { DocOf(fr, p, i) : fr \in BOOLEAN, p \in SeqsUpTo(RecoverPending, MaxLines),
                        i \in SeqsUpTo(RecoverStarted, MaxLines) }

InitRecover ==
    /\ present = TRUE
    /\ doc \in RecoverDocs
    /\ now = 1
    /\ cons = "down"
    /\ queued = [m \in Missions |-> Cardinality(Where(doc, m))]
    /\ ret = 0
    /\ IdleSeq
    /\ IdleOut
    /\ IdleConc

\* The consumer starts, is stopped, starts again.
NextRecover == Startup \/ Crash

SpecRecover == InitRecover /\ [][NextRecover]_vars

\* C11: recover never inserts into Pending a line that Pending already
\* holds verbatim (no line ends up there more often than before, or more
\* than once), and a recover run directly after a recover run returns 0
\* and leaves the document unchanged.
C11_RecoverIdempotent ==
    [][ IsRecover =>
          LET old == LinesOf(doc, "Pending")
              new == LinesOf(doc', "Pending")
          IN  /\ \A j \in 1..Len(new) :
                    new[j].k = "item" =>
                        Count(new[j], new) <= IF Count(new[j], old) = 0 THEN 1
                                              ELSE Count(new[j], old)
              /\ last[1] = "recover" => (doc' = doc /\ ret' = 0) ]_vars

\* A second sweep ran directly after one that took two entries and left
\* a single entry in Pending: one of the two was there verbatim.
C11_Witness ==
    /\ cons = "up" /\ last = << "recover", 2 >> /\ ret = 0
    /\ Cardinality(FlatIn(doc, "Pending")) = 1
    /\ FlatIn(doc, "InProgress") = {}

\* ------------------------------------------------------ the stamps
Queued(line) == Stamps(line, {"queued"})

Started(line) == Stamps(line, {"started"})

Completion(line) == Stamps(line, {"done", "failed"})

\* The flat entry of mission m, when the document holds exactly one.
LineOf(d, m) == d[Min(Where(d, m))]

C16_InsertStampsOnce ==
    [][ \A m \in Missions, pre \in 0..MaxClock :
          (Insert(m, pre) \/ \E u \in BOOLEAN : InsertMission(m, u, pre)) =>
             /\ SecOf(doc', m) = "Pending"
             /\ Queued(LineOf(doc', m)) =
                    << Stamp("queued", IF pre = 0 THEN now ELSE pre) >> ]_vars

\* C17: after insert, start, then complete (or fail), the line of the
\* entry in Done (or Failed) carries the queued stamp insert wrote and the
\* started stamp start wrote, both unchanged, followed by the completion
\* stamp with the success (or failure) marker: start appends its stamp to
\* the queued one, complete and fail append theirs to both.
C17_RoundTrip ==
    [][ \A m \in Missions :
          LET a == LineOf(doc, m)
              b == LineOf(doc', m)
          IN  /\ (queued[m] = 1 /\ SecOf(doc, m) = "Pending"
                                /\ SecOf(doc', m) = "InProgress") =>
                     /\ Len(Queued(a)) = 1
                     /\ b.st = a.st \o << Stamp("started", now) >>
              /\ (queued[m] = 1 /\ SecOf(doc, m) = "InProgress"
                                /\ SecOf(doc', m) \in {"Done", "Failed"}) =>
                     /\ Len(b.st) = 3
                     /\ b.st[1].g = "queued" /\ b.st[2].g = "started"
                     /\ b.st = a.st \o << Stamp(IF SecOf(doc', m) = "Done" THEN "done"
                                                ELSE "failed", now) >> ]_vars

\* The place of a stamp's glyph in the order the stamps are written.
Rank(g) == CASE g = "queued" -> 1 [] g = "started" -> 2 [] OTHER -> 3

\* C18: in every reachable document each mission line carries at most one
\* queued, at most one started and at most one completion stamp, and the
\* stamps it carries stand in the order queued, started, completion.
C18_StampsOnceInOrder ==
    \A i \in 1..Len(doc) :
        doc[i].k = "item" =>
            /\ Len(Queued(doc[i])) <= 1
            /\ Len(Started(doc[i])) <= 1
            /\ Len(Completion(doc[i])) <= 1
            /\ \A a, b \in 1..Len(doc[i].st) :
                  a < b => Rank(doc[i].st[a].g) < Rank(doc[i].st[b].g)

\* The entry the crashed consumer had started was swept back to Pending,
\* started again and completed: one stamp of each kind.
C18_Witness ==
    /\ ret >= 1
    /\ SecOf(doc, 1) = "Done"
    /\ doc[HdrIdx(doc, "Pending")].fr
    /\ LineOf(doc, 1).st = << Stamp("queued", 1), Stamp("started", 1), Stamp("done", 1) >>

NoEntry(d, sec, m) ==
    ~\E i \in 1..Len(d) : d[i].k = "item" /\ d[i].id = m /\ SectionOf(d, i) = sec

\* C20: start with a text that matches no entry of Pending, and complete
\* or fail with a text that matches no entry of In Progress, return the
\* document unchanged.
C20_NoMatchNoChange ==
    [][ \A m \in Missions :
          /\ (Start(m) /\ NoEntry(doc, "Pending", m)) => doc' = doc
          /\ (Complete(m) /\ NoEntry(doc, "InProgress", m)) => doc' = doc
          /\ (Fail(m) /\ NoEntry(doc, "InProgress", m)) => doc' = doc ]_vars

\* start was called for a mission that is in Done, while the other waits
\* in Pending: the first is still in Done, carrying no second started
\* stamp, and the other still in Pending.
C20_Witness ==
    /\ last = << "start", 2 >>
    /\ SecOf(doc, 2) = "Done"
    /\ Len(Started(LineOf(doc, 2))) = 1
    /\ SecOf(doc, 1) = "Pending"

\* ------------------------------------------------------ the order of Pending
\* C13: a non-urgent insert places the new entry after every entry
\* already in Pending and an urgent insert before every one of them; after
\* a non-urgent insert into a Pending that had an entry to extract,
\* extract_next still returns that older entry.
C13_InsertOrder ==
    [][ \A m \in Missions :
          (queued[m] = 0 /\ queued'[m] = 1) =>
             LET j == Min(Where(doc', m))
                 others == FlatIn(doc', "Pending") \ {j}
                 before == extract_next_mission(doc, "")
                 after == extract_next_mission(doc', "")
             IN  IF last'[1] = "insert_mission_urgent"
                 THEN \A i \in others : j < i
                 ELSE /\ \A i \in others : i < j
                      /\ (present /\ before # 0) =>
                            (after # 0 /\ doc'[after] = doc[before]) ]_vars

\* ------------------------------------------------ extraction on any document
\* What Pending may hold when the consumer extracts: an untagged entry,
\* entries tagged as the producers tag them ("[project:X]") and in the
\* other spelling, in either case of the name, and a `### ` header, which
\* makes sub-items of the entries under it.
ExtractPending ==
    { Item(1), Tagged(1, "project", "web"), Tagged(1, "projet", "web"),
      Tagged(1, "projet", "Koan"), Sub(2) }

ExtractDocs ==
    { DocOf(fr, p, << Item(2) >>) : fr \in BOOLEAN,
                                    p \in SeqsUpTo(ExtractPending, MaxLines) }

Filters == { "", "koan", "WEB" }

InitExtract ==
    /\ present \in BOOLEAN
    /\ doc \in IF present THEN ExtractDocs ELSE {<< >>}
    /\ now = 1
    /\ cons = "up"
    /\ queued = [m \in Missions |-> 0]
    /\ ret = 0
    /\ last = NoCall /\ filter \in Filters /\ found = NotCalled /\ shown = NotShown
    /\ IdleConc
    /\ IdleOut

\* The consumer asks for the next mission of project `filter`.
Extract ==
    /\ found' = IF ~present \/ extract_next_mission(doc, filter) = 0 THEN << >>
                ELSE << doc[extract_next_mission(doc, filter)] >>
    /\ last' = << "extract_next_mission", 0 >>
    /\ UNCHANGED << doc, present, now, cons, queued, ret, filter, shown >>
    /\ UNCHANGED concvars

NextExtract == Extract

SpecExtract == InitExtract /\ [][NextExtract]_vars

\* The line carries a tag, in either spelling, that names a project other
\* than project_name (names compared without regard to case).
OtherProject(line, project_name) ==
    /\ line.tag # ""
    /\ line.sp \in {"project", "projet"}
    /\ lower(line.tag) # lower(project_name)

\* C14: extract_next called with a non-empty project filter P never
\* returns an entry tagged [project:Q] or [projet:Q] with Q other than P.
C14_SkipsOtherProjects ==
    (last[1] = "extract_next_mission" /\ filter # "" /\ found # << >>)
        => ~OtherProject(found[1], filter)

\* The first line of Pending that is a flat entry and is untagged or
\* tagged for project_name; 0 when there is none.
FirstVisible(d, project_name) ==
    First({i \in FlatIn(d, "Pending") :
              project_name = "" \/ ~OtherProject(d[i], project_name)})

\* C15: extract_next returns the first line, in document order, of the
\* Pending section that is a flat entry (not a sub-item of a `### ` block)
\* and is untagged or tagged for the filter project; it returns empty when
\* there is no such line or no file, and never a line of another section.
C15_FirstVisibleEntry ==
    last[1] = "extract_next_mission" =>
        found = IF ~present \/ FirstVisible(doc, filter) = 0 THEN << >>
                ELSE << doc[FirstVisible(doc, filter)] >>

\* ------------------------------------------- the operations on any document
\* A document without a Pending section, a mission started in it.
NoPendingDoc(fr) ==
    << Title, Blank, Hdr("InProgress", fr), Blank,
       WithStamp(Entry(2, 1), "started", 1), Blank, Hdr("Done", fr) >>

\* Pending holds the placeholder only; a mission was left in In Progress.
PlaceholderDoc ==
    DocOf(FALSE, << NonePlaceholder(FALSE) >>, << WithStamp(Entry(2, 1), "started", 1) >>)

\* A hand-edited document: free text between the lines, no blank line
\* after the headers, two blank lines in a row.
HandDoc ==
    << Title, Raw(1), Hdr("Pending", FALSE), Entry(2, 1), Raw(2), Blank, Blank,
       Hdr("InProgress", FALSE), Hdr("Done", FALSE), Raw(3) >>

\* The documents an operation may find: an empty file, a file of blank
\* lines, a title alone, and the documents above.
ShapeDocs ==
    { << >>, << Blank, Blank >>, << Title >>, NoPendingDoc(FALSE), NoPendingDoc(TRUE),
      PlaceholderDoc, HandDoc, FrenchDoc }

InitShapes ==
    /\ present \in BOOLEAN
    /\ doc \in IF present THEN ShapeDocs ELSE {<< >>}
    /\ now = 1
    /\ cons = "down"
    /\ queued = [m \in Missions |-> Cardinality(Where(doc, m))]
    /\ ret = 0
    /\ IdleSeq
    /\ IdleOut
    /\ IdleConc

\* A producer sends a text the document already holds (the same command
\* given twice) through insert_pending_mission.
InsertAgain(m, pre) ==
    /\ queued[m] = 1 /\ present
    /\ doc' = InsertPendingContent(doc, Entry(m, pre))
    /\ queued' = [queued EXCEPT ![m] = @ + 1]
    /\ last' = << "insert_pending_mission", m >>
    /\ UNCHANGED << present, now, cons, ret, filter, found, shown >>
    /\ UNCHANGED concvars

\* Mission 1 is what the producers queue, once or twice; mission 2 is what
\* the document already holds, and it goes through its life too.
NextShapes ==
    \/ NextFor({1})
    \/ \E pre \in 0..now : InsertAgain(1, pre)
    \/ Start(2)
    \/ Complete(2)
    \/ Fail(2)

SpecShapes == InitShapes /\ [][NextShapes]_vars

\* The lines of d that are the header of section sec, in either spelling.
Headers(d, sec) == {i \in 1..Len(d) : d[i].k = "hdr" /\ d[i].sec = sec}

C22_UniqueText == \A m \in Missions : Cardinality(Where(doc, m)) <= 1

\* Pending holds the empty-placeholder line and nothing else.
OnlyPlaceholder(d) ==
    /\ NonBlank(LinesOf(d, "Pending")) # << >>
    /\ \A i \in 1..Len(d) :
          (SectionOf(d, i) = "Pending" /\ d[i].k \notin {"hdr", "blank"}) => d[i].k = "none"

\* C26: when Pending holds only an empty-placeholder line, insert and
\* recover remove the placeholder before they add entries: afterwards
\* Pending holds the added entries and no placeholder line.
C26_PlaceholderRemoved ==
    [][ ( /\ present /\ OnlyPlaceholder(doc) /\ doc' # doc
          /\ \/ last'[1] \in {"insert_pending_mission", "insert_mission",
                               "insert_mission_urgent"}
             \/ last'[1] = "recover" /\ ret' > 0 )
        => /\ \E i \in 1..Len(doc') : doc'[i].k = "item" /\ SectionOf(doc', i) = "Pending"
           /\ \A i \in 1..Len(doc') : SectionOf(doc', i) = "Pending" => doc'[i].k # "none"
      ]_vars

\* The step is an insert of mission m, by either insert function.
IsInsert(m) ==
    /\ last' \in {<< "insert_pending_mission", m >>, << "insert_mission", m >>,
                  << "insert_mission_urgent", m >>}
    /\ doc' # doc

\* The document holds no text: no line, or blank lines only.
NoText(d) == NonBlank(d) = << >>

\* The lines of Pending that are an entry of mission m.
PendingEntries(d, m) ==
    {i \in 1..Len(d) : d[i].k = "item" /\ d[i].id = m /\ SectionOf(d, i) = "Pending"}

Targets ==
    IF last'[1] = "recover" THEN {doc[i].id : i \in Stale(doc)} ELSE {last'[2]}

\* The step may take the placeholder of Pending away: insert and recover.
TakesPlaceholder ==
    last'[1] \in {"recover", "insert_pending_mission", "insert_mission",
                  "insert_mission_urgent"}

\* The lines of d a step on the missions T has to leave alone, in order:
\* every line but the blank ones, the unstruck entries of T and, when
\* `ph`, the placeholder.
Frame(d, T, ph) ==
    SelectSeq(d, LAMBDA l : /\ l.k # "blank"
                            /\ ~(ph /\ l.k = "none")
                            /\ ~(l.k = "item" /\ l.id \in T /\ ~l.struck))

\* The entries of mission m in d, sub-items and struck ones included.
Entries(d, m) == {i \in 1..Len(d) : d[i].k = "item" /\ d[i].id = m}

ComplexDoc(S) ==
    DocOf(FALSE, << >>,
          << Sub(0) >>
          \o [m \in Missions |-> IF m \in S THEN Struck(m) ELSE Item(m)]
          \o << Blank, Struck(0) >>)

InitComplex ==
    /\ present = TRUE
    /\ doc \in {ComplexDoc(S) : S \in SUBSET Missions}
    /\ now = 1
    /\ cons = "down"
    /\ queued = [m \in Missions |-> Cardinality(Where(doc, m))]
    /\ ret = 0
    /\ IdleSeq
    /\ IdleOut
    /\ IdleConc

\* Every sub-item may be completed or failed; mission 1 is also queued
\* and started as a flat entry with the text of its sub-item.
NextComplex ==
    \/ NextFor({1})
    \/ \E m \in Missions : Complete(m)
    \/ \E m \in Missions : Fail(m)

SpecComplex == InitComplex /\ [][NextComplex]_vars

\* The `### ` lines of section sec.
Blocks(d, sec) == {h \in 1..Len(d) : d[h].k = "sub" /\ SectionOf(d, h) = sec}

\* The unstruck sub-items of the block that starts at line h.
Unstruck(d, h) == {j \in (h+1)..BlockEnd(d, h) : ~d[j].struck}

\* C25: complete or fail whose text names a sub-item of a complex block
\* in In Progress strikes that sub-item only; the block stays in
\* In Progress while a sub-item is unstruck, and leaves In Progress only by
\* the operation that completes its last unstruck sub-item.
C25_ComplexBlock ==
    [][ /\ \A m \in Missions :
              LET i == FindIn(doc, "InProgress", m)
                  j == FindSub(doc, "InProgress", m)
                  h == BlockHead(doc, j)
              IN  ((Complete(m) \/ Fail(m)) /\ j # 0 /\ (i = 0 \/ j < i)) =>
                     IF Unstruck(doc, h) # {j}
                     THEN doc' = [doc EXCEPT ![j].struck = TRUE]
                     ELSE /\ Blocks(doc', "InProgress") = {}
                          /\ \E g \in Blocks(doc', IF last'[1] = "complete" THEN "Done"
                                                     ELSE "Failed") :
                                /\ Unstruck(doc', g) = {}
                                /\ SubSeq(doc', g, BlockEnd(doc', g))
                                      = SubSeq([doc EXCEPT ![j].struck = TRUE],
                                               h, BlockEnd(doc, h))
        /\ (Blocks(doc, "InProgress") # {} /\ Blocks(doc', "InProgress") = {}) =>
              \E h \in Blocks(doc, "InProgress"), m \in Missions :
                  /\ Unstruck(doc, h) = {FindSub(doc, "InProgress", m)}
                  /\ last' \in {<< "complete", m >>, << "fail", m >>} ]_vars

\* The last unstruck sub-item failed: the block is in Failed, every
\* sub-item struck, after an earlier sub-item was completed in place.
C25_Witness ==
    /\ last = << "fail", 2 >>
    /\ Blocks(doc, "InProgress") = {}
    /\ \E g \in Blocks(doc, "Failed") :
          Unstruck(doc, g) = {} /\ BlockEnd(doc, g) = g + MaxMissions
    /\ \A m \in Missions : queued[m] = 0

\* ------------------------------------------------------ the status display
\* The time of the first stamp of `line` with a glyph of G; 0 when the
\* line carries none (a stamp that does not parse counts as none).
TimeOf(line, G) == IF Stamps(line, G) = << >> THEN 0 ELSE Stamps(line, G)[1].t

\* app.missions.extract_timestamps.
extract_timestamps(line) ==
    [queued |-> TimeOf(line, {"queued"}),
     started |-> TimeOf(line, {"started"}),
     completed |-> TimeOf(line, {"done", "failed"})]

\* app.missions.format_duration, in minutes: "< 1m" below one minute,
\* a negative number included, "<n>m" from there on.
format_duration(d) == IF d < 1 THEN << "<", 1 >> ELSE << "", d >>

\* The durations the display derives from the stamps of `line` at time t:
\* "took" and, with a queued stamp, "waited" once completed; "running"
\* while started; "waiting" while queued only.
Derived(line, t) ==
    LET ts == extract_timestamps(line)
    IN  IF ts.completed # 0 /\ ts.started # 0
        THEN << << "took", ts.completed - ts.started >> >>
             \o (IF ts.queued # 0 THEN << << "waited", ts.started - ts.queued >> >>
                 ELSE << >>)
        ELSE IF ts.completed # 0 THEN << >>
        ELSE IF ts.started # 0 THEN << << "running", t - ts.started >> >>
        ELSE IF ts.queued # 0 THEN << << "waiting", t - ts.queued >> >>
        ELSE << >>

\* The parts of the display: a wait under one minute is left out.
Parts(ds) ==
    [i \in 1..Len(SelectSeq(ds, LAMBDA x : x[1] # "waited" \/ x[2] >= 1)) |->
        LET x == SelectSeq(ds, LAMBDA y : y[1] # "waited" \/ y[2] >= 1)[i]
        IN  << x[1], format_duration(x[2]) >>]

\* A display that formats whatever the stamps give.
mission_timing_display_unchecked(line, t) == Parts(Derived(line, t))

\* app.missions.mission_timing_display at time t: "" (no part) when a
\* derived duration is negative.
mission_timing_display(line, t) ==
    IF \E i \in 1..Len(Derived(line, t)) : Derived(line, t)[i][2] < 0
    THEN << >>
    ELSE Parts(Derived(line, t))

\* parse_project: the line without its project tag.
parse_project(line) == [line EXCEPT !.tag = "", !.sp = ""]

\* _format_mission_display: the timing of the line, and whether the text
\* shown ends with a " (timing)" suffix.
format_mission_display(line, t) ==
    LET timing == mission_timing_display(parse_project(line), t)
    IN  [timing |-> timing, suffix |-> timing # << >>]

\* The lines the display may meet: mission 1 with any stamps, the times
\* in any order (a clock set back, a stamp typed by hand).
DisplayLines ==
    { [l EXCEPT !.st = q \o s \o c] :
        l \in {Item(1), Tagged(1, "project", "koan")},
        q \in {<< >>} \cup {<< Stamp("queued", t) >> : t \in 1..MaxClock},
        s \in {<< >>} \cup {<< Stamp("started", t) >> : t \in 1..MaxClock},
        c \in {<< >>} \cup {<< Stamp(g, t) >> : g \in {"done", "failed"}, t \in 1..MaxClock} }

InitDisplay ==
    /\ present = TRUE
    /\ doc \in {DocOf(FALSE, << l >>, << >>) : l \in DisplayLines}
    /\ now \in 1..MaxClock
    /\ cons = "down"
    /\ queued = [m \in Missions |-> Cardinality(Where(doc, m))]
    /\ ret = 0
    /\ IdleSeq
    /\ IdleOut
    /\ IdleConc

\* /status: the handler formats the mission line of the document.
StatusDisplay ==
    /\ present
    /\ \E i \in 1..Len(doc) :
          /\ doc[i].k = "item"
          /\ shown' = format_mission_display(doc[i], now)
    /\ UNCHANGED << doc, present, now, cons, queued, ret, last, filter, found >>
    /\ UNCHANGED concvars

NextDisplay == StatusDisplay

SpecDisplay == InitDisplay /\ [][NextDisplay]_vars

\* C23: mission_timing_display returns the empty string whenever a
\* duration it would derive from the line's stamps is negative (started
\* before queued, completed before started, a stamp later than now); the
\* status line then carries no timing suffix.
C23_NegativeSuppressed ==
    shown # NotShown =>
        \A i \in 1..Len(doc) :
            (doc[i].k = "item" /\ \E j \in 1..Len(Derived(doc[i], now)) :
                                     Derived(doc[i], now)[j][2] < 0)
                => shown.timing = << >> /\ ~shown.suffix

\* Started before queued, completed after started: the display is shown
\* and it is empty.
C23_Witness ==
    /\ shown # NotShown
    /\ shown.timing = << >>
    /\ extract_timestamps(LineOf(doc, 1)) = [queued |-> 2, started |-> 1, completed |-> 2]

\* ------------------------------------------- the document file, concurrently
\* Missions the document already holds when the concurrent calls begin.
OldPending == NumProducers + 3
OldStarted == NumProducers + 4

ConcDoc ==
    << Title, Blank, Hdr("Pending", FALSE), Blank, Item(OldPending), Blank,
       Hdr("InProgress", FALSE), Blank, WithStamp(Item(OldStarted), "started", 1), Blank,
       Hdr("Done", FALSE) >>

InitConc ==
    /\ doc = << >> /\ present = FALSE /\ now = 1 /\ cons = "down"
    /\ queued = [m \in Missions |-> 0] /\ ret = 0
    /\ IdleSeq
    /\ IdleOut
    /\ path \in {0, 1}
    /\ disk = IF path = 0 THEN << >> ELSE << ConcDoc >>
    /\ flock = IF path = 0 THEN << >> ELSE << 0 >>
    /\ temps = {}
    /\ mutex = [p \in Agents |-> 0]
    /\ sameProc \in BOOLEAN
    /\ pc = [a \in Agents |-> "idle"]
    /\ fd = [a \in Agents |-> 0]
    /\ buf = [a \in Agents |-> << >>]
    /\ op = "none"
    /\ lockOrder = << >>
    /\ persisted = IF path = 0 THEN {Absent} ELSE {ConcDoc}
    /\ obs = NotRead
    /\ tmp = 0

\* The process agent a runs in.
proc(a) == IF a \in Producers /\ sameProc THEN 1 ELSE a

\* What the file holds after `new` is written at offset 0 over `old`: the
\* write replaces the head of the file and leaves what lies beyond it.
Overwrite(old, new) ==
    IF Len(new) >= Len(old) THEN new
    ELSE new \o SubSeq(old, Len(new) + 1, Len(old))

\* ---- insert_pending_mission(missions_path, entry), by producer a
\* with _MISSIONS_LOCK:
ins_mutex(a) ==
    /\ pc[a] = "idle" /\ mutex[proc(a)] = 0
    /\ mutex' = [mutex EXCEPT ![proc(a)] = a]
    /\ pc' = [pc EXCEPT ![a] = "exists"]
    /\ UNCHANGED << path, disk, temps, flock, sameProc, fd, buf, op, lockOrder,
                    persisted, obs, tmp >>
    /\ UNCHANGED seqvars

\* if not missions_path.exists():
ins_exists(a) ==
    /\ pc[a] = "exists"
    /\ pc' = [pc EXCEPT ![a] = IF path = 0 THEN "mk" ELSE "open"]
    /\ UNCHANGED << path, disk, temps, flock, mutex, sameProc, fd, buf, op,
                    lockOrder, persisted, obs, tmp >>
    /\ UNCHANGED seqvars

\* write_text opens the file "w": it creates it, or empties the one there.
OpenW(a) ==
    IF path = 0
    THEN /\ disk' = Append(disk, << >>)
         /\ flock' = Append(flock, 0)
         /\ path' = Len(disk) + 1
         /\ fd' = [fd EXCEPT ![a] = Len(disk) + 1]
    ELSE /\ disk' = [disk EXCEPT ![path] = << >>]
         /\ fd' = [fd EXCEPT ![a] = path]
         /\ UNCHANGED << path, flock >>

\* missions_path.write_text(_MISSIONS_DEFAULT): open ...
ins_mk(a) ==
    /\ pc[a] = "mk"
    /\ OpenW(a)
    /\ pc' = [pc EXCEPT ![a] = "mkw"]
    /\ UNCHANGED << temps, mutex, sameProc, buf, op, lockOrder, persisted, obs, tmp >>
    /\ UNCHANGED seqvars

\* ... write and close.
ins_mkw(a) ==
    /\ pc[a] = "mkw"
    /\ disk' = [disk EXCEPT ![fd[a]] = Overwrite(@, MISSIONS_DEFAULT)]
    /\ fd' = [fd EXCEPT ![a] = 0]
    /\ persisted' = persisted \cup {MISSIONS_DEFAULT}
    /\ pc' = [pc EXCEPT ![a] = "open"]
    /\ UNCHANGED << path, temps, flock, mutex, sameProc, buf, op, lockOrder, obs, tmp >>
    /\ UNCHANGED seqvars

\* with open(missions_path, "r+") as f:
ins_open(a) ==
    /\ pc[a] = "open"
    /\ fd' = [fd EXCEPT ![a] = path]
    /\ pc' = [pc EXCEPT ![a] = "lock"]
    /\ UNCHANGED << path, disk, temps, flock, mutex, sameProc, buf, op, lockOrder,
                    persisted, obs, tmp >>
    /\ UNCHANGED seqvars

\* fcntl.flock(f, fcntl.LOCK_EX)
ins_flock(a) ==
    /\ pc[a] = "lock" /\ flock[fd[a]] = 0
    /\ flock' = [flock EXCEPT ![fd[a]] = a]
    /\ lockOrder' = Append(lockOrder, a)
    /\ pc' = [pc EXCEPT ![a] = "read"]
    /\ UNCHANGED << path, disk, temps, mutex, sameProc, fd, buf, op, persisted, obs, tmp >>
    /\ UNCHANGED seqvars

\* content = f.read() ... content = normalize_content(content)
ins_read(a) ==
    /\ pc[a] = "read"
    /\ buf' = [buf EXCEPT ![a] = InsertPendingContent(disk[fd[a]], Item(a))]
    /\ pc' = [pc EXCEPT ![a] = "trunc"]
    /\ UNCHANGED << path, disk, temps, flock, mutex, sameProc, fd, op, lockOrder,
                    persisted, obs, tmp >>
    /\ UNCHANGED seqvars

\* f.seek(0); f.truncate(); f.write(content): the file is cut to nothing at
\* once, the content stays in the file object's buffer until it is flushed.
ins_trunc(a) ==
    /\ pc[a] = "trunc"
    /\ disk' = [disk EXCEPT ![fd[a]] = << >>]
    /\ pc' = [pc EXCEPT ![a] = "unlock"]
    /\ UNCHANGED << path, temps, flock, mutex, sameProc, fd, buf, op, lockOrder,
                    persisted, obs, tmp >>
    /\ UNCHANGED seqvars

\* fcntl.flock(f, fcntl.LOCK_UN)
ins_unlock(a) ==
    /\ pc[a] = "unlock"
    /\ flock' = [flock EXCEPT ![fd[a]] = 0]
    /\ pc' = [pc EXCEPT ![a] = "close"]
    /\ UNCHANGED << path, disk, temps, mutex, sameProc, fd, buf, op, lockOrder,
                    persisted, obs, tmp >>
    /\ UNCHANGED seqvars

\* Leaving `with open`: the file is closed, which flushes the buffer; then
\* leaving `with _MISSIONS_LOCK`.
ins_close(a) ==
    /\ pc[a] = "close"
    /\ disk' = [disk EXCEPT ![fd[a]] = Overwrite(@, buf[a])]
    /\ persisted' = persisted \cup {buf[a]}
    /\ fd' = [fd EXCEPT ![a] = 0]
    /\ buf' = [buf EXCEPT ![a] = << >>]
    /\ mutex' = [mutex EXCEPT ![proc(a)] = 0]
    /\ pc' = [pc EXCEPT ![a] = "done"]
    /\ UNCHANGED << path, temps, flock, sameProc, op, lockOrder, obs, tmp >>
    /\ UNCHANGED seqvars

insert_pending_mission(a) ==
    \/ ins_mutex(a) \/ ins_exists(a) \/ ins_mk(a) \/ ins_mkw(a) \/ ins_open(a)
    \/ ins_flock(a) \/ ins_read(a) \/ ins_trunc(a) \/ ins_unlock(a) \/ ins_close(a)

NextIns == \E a \in Producers : insert_pending_mission(a)

SpecIns == InitConc /\ [][NextIns]_vars

\* ---- handle_message(text) of the chat bridge, default branch
\* missions.replace("## Pending\n", f"## Pending\n- [ ] {text}\n", 1): the
\* line goes in directly under the first English Pending header; without
\* one the text is returned as it is.
BridgeContent(d, m) ==
    LET h == First({i \in 1..Len(d) : d[i].k = "hdr" /\ d[i].sec = "Pending" /\ ~d[i].fr})
    IN  IF h = 0 THEN d
        ELSE InsertAt(d, h + 1, << [Item(m) EXCEPT !.box = TRUE] >>)

\* missions = MISSIONS_FILE.read_text() if MISSIONS_FILE.exists() else ...
b_read ==
    /\ pc[Bridge] = "idle"
    /\ buf' = [buf EXCEPT ![Bridge] =
                  BridgeContent(IF path = 0 THEN MISSIONS_DEFAULT ELSE disk[path], Bridge)]
    /\ pc' = [pc EXCEPT ![Bridge] = "bopen"]
    /\ UNCHANGED << path, disk, temps, flock, mutex, sameProc, fd, op, lockOrder,
                    persisted, obs, tmp >>
    /\ UNCHANGED seqvars

\* MISSIONS_FILE.write_text(missions): open ...
b_open ==
    /\ pc[Bridge] = "bopen"
    /\ OpenW(Bridge)
    /\ pc' = [pc EXCEPT ![Bridge] = "bwrite"]
    /\ UNCHANGED << temps, mutex, sameProc, buf, op, lockOrder, persisted, obs, tmp >>
    /\ UNCHANGED seqvars

\* ... write and close; send_message("Mission added: ...").
b_write ==
    /\ pc[Bridge] = "bwrite"
    /\ disk' = [disk EXCEPT ![fd[Bridge]] = Overwrite(@, buf[Bridge])]
    /\ persisted' = persisted \cup {buf[Bridge]}
    /\ fd' = [fd EXCEPT ![Bridge] = 0]
    /\ buf' = [buf EXCEPT ![Bridge] = << >>]
    /\ pc' = [pc EXCEPT ![Bridge] = "done"]
    /\ UNCHANGED << path, temps, flock, mutex, sameProc, op, lockOrder, obs, tmp >>
    /\ UNCHANGED seqvars

handle_message == b_read \/ b_open \/ b_write

\* ---- the consumer's start / complete / fail / recover on the file: the
\* guard, the read, the transformation, then atomic_write.
ConsumerOps == {"start", "complete", "fail", "recover"}

\* An empty or blank document reads as the default skeleton.
ReadDoc(d) == IF IsEmptyDoc(d) THEN MISSIONS_DEFAULT ELSE d

ConsumerOp(o, d) ==
    CASE o = "start" -> start_mission(ReadDoc(d), OldPending, now)
      [] o = "complete" -> complete_mission(ReadDoc(d), OldStarted, now)
      [] o = "fail" -> fail_mission(ReadDoc(d), OldStarted, now)
      [] OTHER -> recover_content(ReadDoc(d))[1]

c_begin(o) ==
    /\ pc[Consumer] = "idle" /\ mutex[Consumer] = 0
    /\ op' = o
    /\ IF path = 0
       THEN /\ pc' = [pc EXCEPT ![Consumer] = "done"]
            /\ UNCHANGED mutex
       ELSE /\ pc' = [pc EXCEPT ![Consumer] = "open"]
            /\ mutex' = [mutex EXCEPT ![Consumer] = Consumer]
    /\ UNCHANGED << path, disk, temps, flock, sameProc, fd, buf, lockOrder,
                    persisted, obs, tmp >>
    /\ UNCHANGED seqvars

c_open ==
    /\ pc[Consumer] = "open"
    /\ fd' = [fd EXCEPT ![Consumer] = path]
    /\ pc' = [pc EXCEPT ![Consumer] = "lock"]
    /\ UNCHANGED << path, disk, temps, flock, mutex, sameProc, buf, op, lockOrder,
                    persisted, obs, tmp >>
    /\ UNCHANGED seqvars

c_flock ==
    /\ pc[Consumer] = "lock" /\ flock[fd[Consumer]] = 0
    /\ flock' = [flock EXCEPT ![fd[Consumer]] = Consumer]
    /\ lockOrder' = Append(lockOrder, Consumer)
    /\ pc' = [pc EXCEPT ![Consumer] = "read"]
    /\ UNCHANGED << path, disk, temps, mutex, sameProc, fd, buf, op, persisted, obs, tmp >>
    /\ UNCHANGED seqvars

\* Read and transform; an operation that changes nothing writes nothing.
c_read ==
    /\ pc[Consumer] = "read"
    /\ LET new == ConsumerOp(op, disk[fd[Consumer]])
       IN  /\ buf' = [buf EXCEPT ![Consumer] = new]
           /\ pc' = [pc EXCEPT ![Consumer] =
                        IF new = ReadDoc(disk[fd[Consumer]]) THEN "unlock" ELSE "mkstemp"]
    /\ UNCHANGED << path, disk, temps, flock, mutex, sameProc, fd, op, lockOrder,
                    persisted, obs, tmp >>
    /\ UNCHANGED seqvars

\* atomic_write: fd, tmp = tempfile.mkstemp(dir=..., prefix=".koan-")
aw_mkstemp ==
    /\ pc[Consumer] = "mkstemp"
    /\ disk' = Append(disk, << >>)
    /\ flock' = Append(flock, 0)
    /\ tmp' = Len(disk) + 1
    /\ temps' = temps \cup {Len(disk) + 1}
    /\ pc' = [pc EXCEPT ![Consumer] = "write"]
    /\ UNCHANGED << path, mutex, sameProc, fd, buf, op, lockOrder, persisted, obs >>
    /\ UNCHANGED seqvars

\* atomic_write: flock(f, LOCK_EX) on the new file; f.write(content);
\* f.flush(); os.fsync(); the file is closed.
aw_write ==
    /\ pc[Consumer] = "write"
    /\ disk' = [disk EXCEPT ![tmp] = buf[Consumer]]
    /\ pc' = [pc EXCEPT ![Consumer] = "replace"]
    /\ UNCHANGED << path, temps, flock, mutex, sameProc, fd, buf, op, lockOrder,
                    persisted, obs, tmp >>
    /\ UNCHANGED seqvars

\* atomic_write: os.replace(tmp, str(path))
aw_replace ==
    /\ pc[Consumer] = "replace"
    /\ path' = tmp
    /\ temps' = temps \ {tmp}
    /\ tmp' = 0
    /\ persisted' = persisted \cup {buf[Consumer]}
    /\ pc' = [pc EXCEPT ![Consumer] = "unlock"]
    /\ UNCHANGED << disk, flock, mutex, sameProc, fd, buf, op, lockOrder, obs >>
    /\ UNCHANGED seqvars

c_unlock ==
    /\ pc[Consumer] = "unlock"
    /\ flock' = [flock EXCEPT ![fd[Consumer]] = 0]
    /\ fd' = [fd EXCEPT ![Consumer] = 0]
    /\ buf' = [buf EXCEPT ![Consumer] = << >>]
    /\ mutex' = [mutex EXCEPT ![Consumer] = 0]
    /\ pc' = [pc EXCEPT ![Consumer] = "done"]
    /\ UNCHANGED << path, disk, temps, sameProc, op, lockOrder, persisted, obs, tmp >>
    /\ UNCHANGED seqvars

consumer_mutation ==
    \/ \E o \in ConsumerOps : c_begin(o)
    \/ c_open \/ c_flock \/ c_read \/ aw_mkstemp \/ aw_write \/ aw_replace \/ c_unlock

\* ---- a reader that takes no lock: extract_next_mission, the status display
\* path.read_text()
read_text ==
    /\ obs' = IF path = 0 THEN Absent ELSE disk[path]
    /\ UNCHANGED << path, disk, temps, flock, mutex, sameProc, pc, fd, buf, op,
                    lockOrder, persisted, tmp >>
    /\ UNCHANGED seqvars

\* ---- a process is killed in the middle of a call: its descriptors are
\* closed (which drops its locks), what it had buffered is gone.
Busy(a) == pc[a] \notin {"idle", "done", "dead", "failed"}

Kill(p) ==
    /\ \E a \in Agents : proc(a) = p /\ Busy(a)
    /\ pc' = [a \in Agents |-> IF proc(a) = p THEN "dead" ELSE pc[a]]
    /\ flock' = [i \in 1..Len(flock) |->
                    IF flock[i] # 0 /\ proc(flock[i]) = p THEN 0 ELSE flock[i]]
    /\ fd' = [a \in Agents |-> IF proc(a) = p THEN 0 ELSE fd[a]]
    /\ buf' = [a \in Agents |-> IF proc(a) = p THEN << >> ELSE buf[a]]
    /\ mutex' = [mutex EXCEPT ![p] = 0]
    /\ UNCHANGED << path, disk, temps, sameProc, op, lockOrder, persisted, obs, tmp >>
    /\ UNCHANGED seqvars

\* ---- hard I/O errors (disk full, permission denied)
\* The flush at the close of insert_pending_mission's file fails: the
\* exception leaves both `with` blocks.
ins_close_fail(a) ==
    /\ pc[a] = "close"
    /\ fd' = [fd EXCEPT ![a] = 0]
    /\ buf' = [buf EXCEPT ![a] = << >>]
    /\ mutex' = [mutex EXCEPT ![proc(a)] = 0]
    /\ pc' = [pc EXCEPT ![a] = "failed"]
    /\ UNCHANGED << path, disk, temps, flock, sameProc, op, lockOrder, persisted,
                    obs, tmp >>
    /\ UNCHANGED seqvars

\* An exception that leaves the mutex locked behind it.
ins_raise_leak(a) ==
    /\ pc[a] = "read"
    /\ flock' = [flock EXCEPT ![fd[a]] = 0]
    /\ fd' = [fd EXCEPT ![a] = 0]
    /\ pc' = [pc EXCEPT ![a] = "failed"]
    /\ UNCHANGED << path, disk, temps, mutex, sameProc, buf, op, lockOrder, persisted,
                    obs, tmp >>
    /\ UNCHANGED seqvars

\* An exception inside the critical section of insert_pending_mission
\* (f.read() or the import of normalize_content raises): leaving
\* `with open` closes the file, which drops the file lock, and leaving
\* `with _MISSIONS_LOCK` releases the mutex.
ins_raise(a) ==
    /\ pc[a] = "read"
    /\ flock' = [flock EXCEPT ![fd[a]] = 0]
    /\ fd' = [fd EXCEPT ![a] = 0]
    /\ mutex' = [mutex EXCEPT ![proc(a)] = 0]
    /\ pc' = [pc EXCEPT ![a] = "failed"]
    /\ UNCHANGED << path, disk, temps, sameProc, buf, op, lockOrder, persisted,
                    obs, tmp >>
    /\ UNCHANGED seqvars

\* atomic_write fails in mkstemp (no file was made), in the write or in
\* os.replace (except BaseException: os.unlink(tmp); raise).
aw_fail ==
    /\ pc[Consumer] \in {"mkstemp", "write", "replace"}
    /\ temps' = temps \ {tmp}
    /\ tmp' = 0
    /\ flock' = [flock EXCEPT ![fd[Consumer]] = 0]
    /\ fd' = [fd EXCEPT ![Consumer] = 0]
    /\ buf' = [buf EXCEPT ![Consumer] = << >>]
    /\ mutex' = [mutex EXCEPT ![Consumer] = 0]
    /\ pc' = [pc EXCEPT ![Consumer] = "failed"]
    /\ UNCHANGED << path, disk, sameProc, op, lockOrder, persisted, obs >>
    /\ UNCHANGED seqvars

\* Producers and the consumer.
NextOrder == NextIns \/ consumer_mutation

SpecOrder == InitConc /\ [][NextOrder]_vars

\* Producers, the chat bridge and the consumer.
NextGuard == NextIns \/ handle_message \/ consumer_mutation

SpecGuard == InitConc /\ [][NextGuard]_vars

\* Producers and the consumer, an unlocked reader, and kills.
NextRead == NextIns \/ consumer_mutation \/ read_text \/ \E p \in Agents : Kill(p)

SpecRead == InitConc /\ [][NextRead]_vars

\* Producers and the consumer, with I/O errors.
NextIO == NextIns \/ consumer_mutation \/ aw_fail \/ \E a \in Producers : ins_close_fail(a)

SpecIO == InitConc /\ [][NextIO]_vars

\* Producers whose calls may raise, each call running to its end.
NextLive ==
    \/ NextIns
    \/ \E a \in Producers : ins_raise(a)
    \/ \E a \in Producers : ins_close_fail(a)

SpecLive == InitConc /\ [][NextLive]_vars /\ WF_vars(NextLive)

\* The chat bridge next to the producers, on a document in either
\* language.
French(d) == [i \in 1..Len(d) |-> IF d[i].k = "hdr" THEN Hdr(d[i].sec, TRUE) ELSE d[i]]

BridgeDocs == {ConcDoc, French(ConcDoc)}

InitBridge ==
    /\ doc = << >> /\ present = FALSE /\ now = 1 /\ cons = "down"
    /\ queued = [m \in Missions |-> 0] /\ ret = 0
    /\ IdleSeq
    /\ IdleOut
    /\ path \in {0, 1}
    /\ disk \in IF path = 0 THEN {<< >>} ELSE {<< d >> : d \in BridgeDocs}
    /\ flock = IF path = 0 THEN << >> ELSE << 0 >>
    /\ temps = {}
    /\ mutex = [p \in Agents |-> 0]
    /\ sameProc \in BOOLEAN
    /\ pc = [a \in Agents |-> "idle"]
    /\ fd = [a \in Agents |-> 0]
    /\ buf = [a \in Agents |-> << >>]
    /\ op = "none"
    /\ lockOrder = << >>
    /\ persisted = IF path = 0 THEN {Absent} ELSE {disk[1]}
    /\ obs = NotRead
    /\ tmp = 0

NextBridge == NextIns \/ handle_message

SpecBridge == InitBridge /\ [][NextBridge]_vars

\* The document file existed when the calls began.
Existed == Absent \notin persisted

\* The document a reader of the file gets now.
Current == IF path = 0 THEN << >> ELSE disk[path]

\* C1: when producers (threads of one process or separate processes) call
\* insert concurrently on an existing document, then once every call has
\* returned each inserted entry is in Pending exactly once.
C1_ConcurrentInserts ==
    (Existed /\ \A a \in Producers : pc[a] = "done") =>
        \A a \in Producers :
            /\ Count(Item(a), LinesOf(Current, "Pending")) = 1
            /\ Count(Item(a), Current) = 1

\* The same for the threads of one process only.
ThreadsOnly == sameProc => C1_ConcurrentInserts

\* Agent a has returned from its call, or left it by an exception.
Returned(a) == pc[a] \in {"done", "failed"}

\* What a holds of the guard tells where it is: the file lock is held
\* only by an agent that holds its process's mutex, and an agent that is
\* not in a call holds neither.
GuardInOrder ==
    \A a \in Producers :
        /\ (\E i \in 1..Len(flock) : flock[i] = a) => mutex[proc(a)] = a
        /\ (pc[a] = "idle" \/ Returned(a)) =>
              /\ mutex[proc(a)] # a
              /\ \A i \in 1..Len(flock) : flock[i] # a

\* C28: the guard cannot deadlock and is always released: a call takes
\* the in-process mutex, then the file lock, and holds neither once it has
\* returned or raised; every call eventually returns, provided every
\* holder's own cycle finishes.
C28_GuardReleased == []GuardInOrder /\ <>(\A a \in Producers : Returned(a))

\* The call that took the guard first left it by an exception, and the
\* call that waited for it took the guard after it and returned.
C28_Witness ==
    /\ pc[1] = "failed" /\ pc[2] = "done"
    /\ lockOrder = << 1, 2 >>
    /\ Existed
    /\ Count(Item(1), Current) = 0 /\ Count(Item(2), Current) = 1

\* C30: whenever handle_message acknowledges a message with "Mission
\* added", a mission line for that message is in the Pending section of
\* the document it persisted, whichever accepted spelling the Pending
\* header has and whether or not blank lines follow it.
C30_AckMeansAdded ==
    [][ b_write =>
          \E i \in 1..Len(Current') :
              /\ Current'[i].k = "item" /\ Current'[i].id = Bridge
              /\ SectionOf(Current', i) = "Pending" ]_vars

\* C31: when the document file does not exist yet and several producer
\* processes call insert concurrently, the lazy creation of the default
\* skeleton by one process never overwrites a document into which another
\* process has inserted its entry: once every call has returned, all
\* inserted entries are present.
C31_LazyCreation ==
    (~Existed /\ ~sameProc /\ \A a \in Producers : pc[a] = "done") =>
        \A a \in Producers : Count(Item(a), LinesOf(Current, "Pending")) = 1

\* C24: the two entries inserted by two concurrent insert calls from
\* different producers carry distinct queued timestamps.
C24_DistinctQueuedStamps ==
    (Existed /\ \A a \in Producers : pc[a] = "done") =>
        \A a, b \in Producers :
            (a # b /\ Where(Current, a) # {} /\ Where(Current, b) # {}) =>
                /\ Queued(LineOf(Current, a)) # << >>
                /\ Queued(LineOf(Current, b)) # << >>
                /\ Queued(LineOf(Current, a))[1].t # Queued(LineOf(Current, b))[1].t

\* Agent a has read the document and has not yet persisted what it made
\* of it.
InCycle(a) ==
    \/ a \in Producers /\ pc[a] \in {"trunc", "unlock", "close"}
    \/ a = Bridge /\ pc[a] \in {"bopen", "bwrite"}
    \/ a = Consumer /\ pc[a] \in {"mkstemp", "write", "replace"}

\* Agent a holds both layers of the guard on the document file.
HoldsGuard(a) ==
    /\ mutex[proc(a)] = a
    /\ fd[a] # 0 /\ fd[a] = path /\ flock[fd[a]] = a

\* C2: every operation that mutates the document (insert by a skill or
\* GitHub handler, the chat bridge's handle_message, the consumer's start,
\* complete, fail, recover) holds the guard from before its read until its
\* new document is persisted, and no two read-modify-write cycles overlap.
C2_GuardHeld ==
    Existed =>
        /\ \A a \in Agents : InCycle(a) => HoldsGuard(a)
        /\ \A a, b \in Agents : (InCycle(a) /\ InCycle(b)) => a = b

\* The document after the mutations of `order` ran one at a time on d.
RECURSIVE Replay(_, _)
Replay(order, d) ==
    IF order = << >> THEN d
    ELSE Replay(Tail(order),
                IF Head(order) \in Producers
                THEN InsertPendingContent(d, Item(Head(order)))
                ELSE ConsumerOp(op, d))

\* C3: once a producer's insert and the consumer's start, complete, fail or
\* recover have run concurrently and returned, the document is the one
\* obtained by running them one at a time in the order they took the file
\* lock (the producers being threads of one process, so that only the
\* file lock orders them against the consumer).
C3_LockOrder ==
    (Existed /\ sameProc /\ \A a \in Producers \cup {Consumer} : pc[a] = "done") =>
        Current = Replay(lockOrder, ConcDoc)

\* C4: a reader that takes no lock only ever reads a complete document, as
\* some finished mutation persisted it (or as it was at the start).
C4_ReaderSeesWhole == Existed => (obs = NotRead \/ obs \in persisted)

\* C5: when persisting fails with a hard I/O error the call fails, no
\* temporary file is left, and the document file holds what it held before
\* the call (stated for a call that ran alone on the initial document).
C5_FailureKeepsDocument ==
    \A a \in Agents :
        (Existed /\ pc[a] = "failed" /\ \A b \in Agents \ {a} : pc[b] = "idle") =>
            /\ temps = {}
            /\ Current = ConcDoc

\* ---------------------------------------------------------------------------
\* The notifications (app/notify.py)
\* ---------------------------------------------------------------------------

\* How many calls of send_telegram, and how many passages of time, a behaviour
\* holds.
MaxCalls == 3
MaxTicks == 2

FLOOD_WINDOW_SECONDS == 300

\* The flood warning of send_telegram.
FloodWarning == "[flood] Duplicate message detected"

\* The messages passed to send_telegram; "" is the empty message.
Texts == { "", "a", "b" }

\* The module's globals, as one value.
FloodState ==
    [ last_message |-> flood_last_message,
      last_sent_at |-> flood_last_sent_at,
      warning_sent |-> flood_warning_sent ]

InWindowInclusive(elapsed) == elapsed <= FLOOD_WINDOW_SECONDS

\* (now - _flood_last_sent_at) < FLOOD_WINDOW_SECONDS
InWindow(elapsed) == elapsed < FLOOD_WINDOW_SECONDS

\* send_telegram, with the flood state written only once the send succeeded.
send_telegram_unless_failed(st, text, at, ok) ==
    IF text = ""
    THEN [ st |-> st, api |-> "none", ret |-> TRUE ]
    ELSE IF text = st.last_message /\ InWindow(at - st.last_sent_at)
    THEN [ st  |-> [ st EXCEPT !.warning_sent = TRUE ],
           api |-> IF st.warning_sent THEN "none" ELSE "warning",
           ret |-> TRUE ]
    ELSE [ st  |-> IF ok THEN [ last_message |-> text, last_sent_at |-> at,
                                warning_sent |-> FALSE ]
                   ELSE st,
           api |-> "message",
           ret |-> ok ]

\* send_telegram(text) called at time `at` in flood state st, when the
\* Telegram API answers `ok` to whatever is sent: the flood state after the
\* call, what _send_raw was given, and the value returned.  _send_raw("")
\* cuts the text into no chunk, calls no API and returns True; the result of
\* sending the warning is dropped.
send_telegram(st, text, at, ok) ==
    IF text = ""
    THEN [ st |-> st, api |-> "none", ret |-> TRUE ]
    ELSE IF text = st.last_message /\ InWindow(at - st.last_sent_at)
    THEN [ st  |-> [ st EXCEPT !.warning_sent = TRUE ],
           api |-> IF st.warning_sent THEN "none" ELSE "warning",
           ret |-> TRUE ]
    ELSE [ st  |-> [ last_message |-> text, last_sent_at |-> at,
                     warning_sent |-> FALSE ],
           api |-> "message",
           ret |-> ok ]

\* One call of send_telegram.
SendTelegram(text, ok) ==
    /\ Len(tg) < MaxCalls
    /\ LET r == send_telegram(FloodState, text, clock, ok) IN
        /\ flood_last_message' = r.st.last_message
        /\ flood_last_sent_at' = r.st.last_sent_at
        /\ flood_warning_sent' = r.st.warning_sent
        /\ tg' = Append(tg, [ text |-> text, at |-> clock, api |-> r.api,
                              ret |-> r.ret, ok |-> ok ])
    /\ UNCHANGED << clock, ticks >>
    /\ UNCHANGED << queuevars, xvars >>

\* The gaps between two calls: a moment, just under the window, the window.
Gaps == { 1, FLOOD_WINDOW_SECONDS - 1, FLOOD_WINDOW_SECONDS }

\* Time passes.
Elapse(d) ==
    /\ ticks < MaxTicks
    /\ clock' = clock + d
    /\ ticks' = ticks + 1
    /\ UNCHANGED << notifyvars, xvars >>
    /\ UNCHANGED queuevars

\* The mission document plays no part in the notifications.
NoQueue ==
    /\ doc = << >> /\ present = FALSE /\ now = 1 /\ cons = "up"
    /\ queued = [m \in Missions |-> 0] /\ ret = 0
    /\ IdleSeq
    /\ IdleConc

InitNotify ==
    /\ NoQueue
    /\ IdleOut

NextNotify ==
    \/ \E text \in Texts, ok \in BOOLEAN : SendTelegram(text, ok)
    \/ \E d \in Gaps : Elapse(d)

SpecNotify == InitNotify /\ [][NextNotify]_vars

\* The calls before call j that passed a message, and the last of them (0
\* when there is none).
Tracked(j) == { i \in 1..(j - 1) : tg[i].text # "" }

PrevTracked(j) == IF Tracked(j) = {} THEN 0
                  ELSE CHOOSE i \in Tracked(j) : \A k \in Tracked(j) : k <= i

\* Call i opens a run: it passes a message that was sent, or that is not the
\* one of the call before it.
FirstOfRun(i) ==
    /\ tg[i].text # ""
    /\ \/ tg[i].api = "message"
       \/ PrevTracked(i) = 0
       \/ tg[PrevTracked(i)].text # tg[i].text

\* Calls i+1..j repeat the message of call i inside the window call i opened.
Repeats(i, j) ==
    \A k \in (i + 1)..j :
        /\ tg[k].text \in { tg[i].text, "" }
        /\ tg[k].at - tg[i].at < FLOOD_WINDOW_SECONDS

\* C32: in a run of identical messages inside the flood window the first is
\* handed to the API (whether or not the send succeeds), the second makes
\* send_telegram send the flood warning instead of it, every further one
\* reaches no API, and each of the repeated calls returns True.
C32_FloodRun ==
    \A i, j \in 1..Len(tg) :
        (i < j /\ FirstOfRun(i) /\ Repeats(i, j)) =>
            /\ tg[i].api = "message"
            /\ tg[i].ret = tg[i].ok
            /\ \A k \in (i + 1)..j :
                tg[k].text # "" =>
                    /\ tg[k].ret = TRUE
                    /\ tg[k].api = IF Tracked(k) \cap ((i + 1)..j) = {}
                                   THEN "warning" ELSE "none"

\* Three times the same message within the window, the first send failing:
\* the second call sent the warning and the third nothing.
C32_Witness ==
    /\ Len(tg) = 3
    /\ \A k \in 1..3 : tg[k].text = "a" /\ tg[k].at - tg[1].at < FLOOD_WINDOW_SECONDS
    /\ tg[1].api = "message" /\ ~tg[1].ret
    /\ tg[2].api = "warning" /\ tg[2].ret
    /\ tg[3].api = "none" /\ tg[3].ret
    /\ tg[3].at > tg[1].at

\* The last call so far whose message was handed to the API (0 when none).
Sent == { i \in 1..Len(tg) : tg[i].api = "message" }

LastSent == IF Sent = {} THEN 0 ELSE CHOOSE i \in Sent : \A k \in Sent : k <= i

\* C33: a call of send_telegram with a message that differs from the last
\* one sent, or made 300 seconds or more after that one was sent, sends the
\* message and resets the flood state to it; a call that is suppressed leaves
\* the start of the window where it was; a call with the empty message leaves
\* the flood state alone whatever it holds.
C33_FloodReset ==
    [][ tg' # tg =>
        LET c == tg'[Len(tg')] IN
        /\ c.text = "" =>
            /\ c.api = "none"
            /\ UNCHANGED << flood_last_message, flood_last_sent_at, flood_warning_sent >>
        /\ ( /\ c.text # ""
             /\ \/ LastSent = 0
                \/ tg[LastSent].text # c.text
                \/ c.at - tg[LastSent].at >= FLOOD_WINDOW_SECONDS ) =>
            /\ c.api = "message"
            /\ c.ret = c.ok
            /\ flood_last_message' = c.text
            /\ flood_last_sent_at' = c.at
            /\ flood_warning_sent' = FALSE
        /\ (c.text # "" /\ c.api # "message") =>
            /\ LastSent # 0
            /\ flood_last_sent_at' = tg[LastSent].at
            /\ flood_last_message' = tg[LastSent].text
      ]_vars

\* The same message at 0, at 299 (suppressed, with the warning) and at 300
\* seconds: the third call is sent, the window did not move at the second.
C33_Witness ==
    /\ Len(tg) = 3
    /\ \A k \in 1..3 : tg[k].text = "a"
    /\ tg[1].api = "message"
    /\ tg[2].api = "warning" /\ tg[2].at - tg[1].at = FLOOD_WINDOW_SECONDS - 1
    /\ tg[3].api = "message" /\ tg[3].at - tg[1].at = FLOOD_WINDOW_SECONDS
    /\ flood_last_sent_at = tg[3].at /\ ~flood_warning_sent

\* ---------------------------------------------------------------------------
\* The posts to X (app/x_post.py)
\* ---------------------------------------------------------------------------

\* How many requests to the X API and how many pending tweets a behaviour
\* holds, and the max_per_day of config.yaml.
MaxPosts == 3
MaxPending == 2
MaxPerDay == 2

\* The 86400 seconds of _prune_old_records and _trip_circuit_breaker.
DAY == 86400

\* The texts passed to queue_tweet: plain, the same in markdown bold, and one
\* that holds the name of a project.
Tweets == { "t", "**t**", "web" }

\* allowed_triggers holds "koan"; "ad" is not in it.
Triggers == { "koan", "ad" }

AllowedTriggers == { "koan" }

\* sanitize_for_tweet: the markdown bold is removed.
sanitize_for_tweet(text) == IF text = "**t**" THEN "t" ELSE text

screen_nothing(text, projects) == TRUE

\* screen_content: a text that holds the name of a known project is blocked.
screen_content(text, projects) == ~(text \in projects)

\* _content_hash, without collisions.
content_hash(text) == << "sha256", text >>

\* _prune_old_records at time t.
prune_old_records(records, t) ==
    SelectSeq(records, LAMBDA r : r.timestamp > t - DAY)

trip_at_three(cb, t) ==
    LET f == cb.failures + 1 IN
    [ failures |-> f,
      disabled_until |-> IF f >= 3 THEN t + DAY ELSE cb.disabled_until ]

\* _trip_circuit_breaker at time t: the state it saves.
trip_circuit_breaker(cb, t) ==
    LET f == cb.failures + 1 IN
    [ failures |-> f,
      disabled_until |-> IF f >= 2 THEN t + DAY ELSE cb.disabled_until ]

\* _reset_circuit_breaker: the state it saves.
BreakerReset == [ failures |-> 0, disabled_until |-> 0 ]

\* can_post at time t, with posting enabled and the account configured.
can_post(records, cb, t) ==
    /\ ~(cb.disabled_until > t)
    /\ ~(Len(prune_old_records(records, t)) >= MaxPerDay)

\* The reason can_post gives when it refuses.
can_post_reason(cb, t) ==
    IF cb.disabled_until > t THEN "Circuit breaker active" ELSE "Rate limit reached"

\* is_duplicate at time t.
is_duplicate(records, text, t) ==
    \E i \in 1..Len(prune_old_records(records, t)) :
        prune_old_records(records, t)[i].content_hash = content_hash(text)

remove_last_pending(entries) ==
    IF entries = << >> THEN entries ELSE SubSeq(entries, 1, Len(entries) - 1)

\* _remove_first_pending: the queue it saves.
remove_first_pending(entries) ==
    IF entries = << >> THEN entries ELSE Tail(entries)

\* The files of x_post, as one value.
XFiles == [ cooldown |-> cooldown, breaker |-> breaker, pending |-> x_pending ]

\* A request to the X API.
Request(text, t, ok, fn) == << [ text |-> text, at |-> t, ok |-> ok, fn |-> fn ] >>

\* _do_post(text) at time t on files x, when the X API answers `ok` to the
\* request if one is made: the files after the call, the status returned and
\* its message, and the request made.
do_post(x, text, t, ok, fn) ==
    IF ~can_post(x.cooldown, x.breaker, t)
    THEN [ x |-> x, status |-> "error", msg |-> can_post_reason(x.breaker, t),
           sent |-> << >> ]
    ELSE IF ok
    THEN [ x |-> [ x EXCEPT
                   !.cooldown = Append(prune_old_records(x.cooldown, t),
                                       [ timestamp |-> t,
                                         content_hash |-> content_hash(text) ]),
                   !.breaker = BreakerReset ],
           status |-> "posted", msg |-> "", sent |-> Request(text, t, ok, fn) ]
    ELSE [ x |-> [ x EXCEPT !.breaker = trip_circuit_breaker(x.breaker, t) ],
           status |-> "error", msg |-> "X API error",
           sent |-> Request(text, t, ok, fn) ]

\* queue_tweet(trigger, text) at time t, with posting enabled.
queue_tweet(x, trigger, text, t, ok) ==
    LET clean == sanitize_for_tweet(text) IN
    IF trigger \notin AllowedTriggers
    THEN [ x |-> x, status |-> "rejected", msg |-> "", sent |-> << >> ]
    ELSE IF cfg.content_screening /\ ~screen_content(clean, names)
    THEN [ x |-> x, status |-> "rejected", msg |-> "", sent |-> << >> ]
    ELSE IF is_duplicate(x.cooldown, clean, t)
    THEN [ x |-> x, status |-> "rejected", msg |-> "", sent |-> << >> ]
    ELSE IF cfg.require_approval
    THEN [ x |-> [ x EXCEPT !.pending = Append(x.pending,
                                [ trigger |-> trigger, text |-> clean ]) ],
           status |-> "queued", msg |-> "", sent |-> << >> ]
    ELSE do_post(x, clean, t, ok, "queue_tweet")

\* post_approved_tweet() at time t.
post_approved_tweet(x, t, ok) ==
    IF x.pending = << >>
    THEN [ x |-> x, status |-> "empty", msg |-> "", sent |-> << >> ]
    ELSE IF cfg.content_screening /\ ~screen_content(Head(x.pending).text, names)
    THEN [ x |-> [ x EXCEPT !.pending = remove_first_pending(x.pending) ],
           status |-> "rejected", msg |-> "", sent |-> << >> ]
    ELSE LET r == do_post(x, Head(x.pending).text, t, ok, "post_approved_tweet") IN
         IF r.status = "posted"
         THEN [ r EXCEPT !.x.pending = remove_first_pending(r.x.pending) ]
         ELSE r

\* reject_pending_tweet().
reject_pending_tweet(x) ==
    IF x.pending = << >>
    THEN [ x |-> x, status |-> "empty", msg |-> "", sent |-> << >> ]
    ELSE [ x |-> [ x EXCEPT !.pending = remove_first_pending(x.pending) ],
           status |-> "rejected", msg |-> "", sent |-> << >> ]

\* Process 1 ran function fn, which gave r.
Ran(fn, r) ==
    /\ cooldown' = r.x.cooldown
    /\ breaker' = r.x.breaker
    /\ x_pending' = r.x.pending
    /\ xlog' = xlog \o r.sent
    /\ xp' = [ xp EXCEPT ![1] = [ fn |-> fn, pc |-> "idle", text |-> "",
                                  status |-> r.status, msg |-> r.msg ] ]
    /\ UNCHANGED << cfg, names, clock, ticks >>
    /\ UNCHANGED << queuevars, notifyvars >>

\* One call of queue_tweet.
QueueTweet(trigger, text, ok) ==
    /\ Len(xlog) < MaxPosts
    /\ Len(x_pending) < MaxPending
    /\ Ran("queue_tweet", queue_tweet(XFiles, trigger, text, clock, ok))

\* One call of post_approved_tweet (/x approve).
PostApproved(ok) ==
    /\ Len(xlog) < MaxPosts
    /\ Ran("post_approved_tweet", post_approved_tweet(XFiles, clock, ok))

\* One call of reject_pending_tweet (/x reject).
RejectPending ==
    /\ x_pending # << >>
    /\ Ran("reject_pending_tweet", reject_pending_tweet(XFiles))

\* A project named "web" is added to projects.yaml and the process restarted:
\* the content rules changed.
AddProject ==
    /\ names = {}
    /\ names' = { "web" }
    /\ UNCHANGED << cfg, cooldown, breaker, x_pending, xlog, xp, clock, ticks >>
    /\ UNCHANGED << queuevars, notifyvars >>

\* The gaps between two calls: a moment and just under a day, which add up
\* to the day.
DayGaps == { 1, DAY - 1 }

\* config.yaml as the operator wrote it.
Configs == [ require_approval : BOOLEAN, content_screening : BOOLEAN ]

InitX ==
    /\ NoQueue
    /\ clock = 0 /\ ticks = 0
    /\ IdleNotify
    /\ cfg \in Configs
    /\ names = {}
    /\ cooldown = << >>
    /\ breaker = BreakerReset
    /\ x_pending = << >>
    /\ xlog = << >>
    /\ xp = [ p \in XProcs |-> XIdle ]

NextX ==
    \/ \E trigger \in Triggers, text \in Tweets, ok \in BOOLEAN :
            QueueTweet(trigger, text, ok)
    \/ \E ok \in BOOLEAN : PostApproved(ok)
    \/ RejectPending
    \/ AddProject
    \/ \E d \in DayGaps : Elapse(d)

SpecX == InitX /\ [][NextX]_vars

\* The last n requests to the X API all failed.
LastFailed(log, n) ==
    /\ Len(log) >= n
    /\ \A i \in (Len(log) - n + 1)..Len(log) : ~log[i].ok

\* The last two requests failed and the second of them is less than 24 hours
\* old.
BreakerActive == LastFailed(xlog, 2) /\ clock < xlog[Len(xlog)].at + DAY

\* A function of x_post ran in this step.
XCall == xp' # xp \/ xlog' # xlog \/ x_pending' # x_pending

\* C34: the second of two failed requests with no successful one between
\* them disables posting until 24 hours later; while posting is disabled no
\* call makes a request or returns "posted", and a call that gets as far as
\* _do_post returns the error of can_post; a successful request puts the
\* failure count and the disable time back to zero.
C34_CircuitBreaker ==
    [][ /\ (xlog' # xlog /\ LastFailed(xlog', 2)) =>
            breaker'.disabled_until = clock + DAY
        /\ (BreakerActive /\ XCall) =>
            /\ xlog' = xlog
            /\ xp'[1].status # "posted"
            /\ xp'[1].status = "error" => xp'[1].msg = "Circuit breaker active"
        /\ (xlog' # xlog /\ xlog'[Len(xlog')].ok) =>
            breaker' = [ failures |-> 0, disabled_until |-> 0 ]
      ]_vars

\* Two requests failed, and the call after them was refused by the breaker
\* without a request.
C34_Witness ==
    /\ LastFailed(xlog, 2) /\ Len(xlog) = 2
    /\ BreakerActive
    /\ xp[1].status = "error" /\ xp[1].msg = "Circuit breaker active"

\* The content rules in force block the text.
Blocked(text) == text \in names

\* The request made in this step was made by post_approved_tweet for the
\* oldest pending tweet, which the content rules in force let through.
ByApproval ==
    LET q == xlog'[Len(xlog')] IN
    /\ xp'[1].fn = "post_approved_tweet" /\ q.fn = "post_approved_tweet"
    /\ x_pending # << >> /\ q.text = Head(x_pending).text
    /\ ~Blocked(q.text)

HeadRemoved == x_pending # << >> /\ x_pending' = Tail(x_pending)

\* C36: a call of queue_tweet that queues puts the tweet behind the ones
\* already pending; post_approved_tweet posts the oldest pending tweet; the
\* queue loses its head, and only its head, when that tweet was posted, was
\* rejected by reject_pending_tweet or failed the screening at approval, and
\* is unchanged when the post failed or was refused.
C36_PendingFifo ==
    [][ XCall =>
        /\ xp'[1].fn = "queue_tweet" =>
            IF xp'[1].status = "queued"
            THEN /\ Len(x_pending') = Len(x_pending) + 1
                 /\ SubSeq(x_pending', 1, Len(x_pending)) = x_pending
            ELSE x_pending' = x_pending
        /\ xp'[1].fn = "post_approved_tweet" =>
            /\ xlog' # xlog =>
                /\ x_pending # << >>
                /\ xlog'[Len(xlog')].text = Head(x_pending).text
            /\ xp'[1].status = "posted" => HeadRemoved /\ xlog'[Len(xlog')].ok
            /\ xp'[1].status = "rejected" => HeadRemoved /\ xlog' = xlog
            /\ xp'[1].status \in { "error", "empty" } => x_pending' = x_pending
        /\ xp'[1].fn = "reject_pending_tweet" =>
            /\ HeadRemoved
            /\ xlog' = xlog
      ]_vars

\* Two tweets were queued; the post of the first failed and was tried again,
\* and the second is now the head.
C36_Witness ==
    /\ cfg.require_approval
    /\ Len(xlog) = 2 /\ ~xlog[1].ok /\ xlog[2].ok
    /\ xlog[1].text = "t" /\ xlog[2].text = "t"
    /\ Len(x_pending) = 1 /\ x_pending[1].text = "web"
    /\ xp[1].fn = "post_approved_tweet" /\ xp[1].status = "posted"

\* ---------------------------------------------------------------------------
\* The posts to X, by two processes
\* ---------------------------------------------------------------------------

\* Process p is at `at` in function fn with local `text`.
XAt(p, fn, at, text) ==
    xp' = [ xp EXCEPT ![p] = [ fn |-> fn, pc |-> at, text |-> text,
                               status |-> "none", msg |-> "" ] ]

\* Process p returns.
XReturn(p, status, msg) ==
    xp' = [ xp EXCEPT ![p] = [ fn |-> xp[p].fn, pc |-> "idle", text |-> "",
                               status |-> status, msg |-> msg ] ]

\* queue_tweet up to its call of _do_post: the checks, and the append to the
\* pending queue when approval is required.
x_queue_tweet(p, trigger, text) ==
    /\ xp[p].pc = "idle"
    /\ Len(xlog) < MaxPosts
    /\ Len(x_pending) < MaxPending
    /\ LET r == queue_tweet(XFiles, trigger, text, clock, TRUE) IN
        IF trigger \in AllowedTriggers /\ r.status \in { "posted", "error" }
        THEN /\ XAt(p, "queue_tweet", "can_post", sanitize_for_tweet(text))
             /\ UNCHANGED x_pending
        ELSE /\ x_pending' = r.x.pending
             /\ xp' = [ xp EXCEPT ![p] = [ fn |-> "queue_tweet", pc |-> "idle",
                                           text |-> "", status |-> r.status,
                                           msg |-> "" ] ]
    /\ UNCHANGED << cfg, names, cooldown, breaker, xlog, clock, ticks >>
    /\ UNCHANGED << queuevars, notifyvars >>

\* post_approved_tweet up to its call of _do_post.
x_post_approved_tweet(p) ==
    /\ xp[p].pc = "idle"
    /\ Len(xlog) < MaxPosts
    /\ x_pending # << >>
    /\ IF cfg.content_screening /\ ~screen_content(Head(x_pending).text, names)
       THEN /\ x_pending' = remove_first_pending(x_pending)
            /\ xp' = [ xp EXCEPT ![p] = [ fn |-> "post_approved_tweet",
                                          pc |-> "idle", text |-> "",
                                          status |-> "rejected", msg |-> "" ] ]
       ELSE /\ XAt(p, "post_approved_tweet", "can_post", Head(x_pending).text)
            /\ UNCHANGED x_pending
    /\ UNCHANGED << cfg, names, cooldown, breaker, xlog, clock, ticks >>
    /\ UNCHANGED << queuevars, notifyvars >>

\* _do_post: allowed, reason = can_post().
x_can_post(p) ==
    /\ xp[p].pc = "can_post"
    /\ IF can_post(cooldown, breaker, clock)
       THEN XAt(p, xp[p].fn, "post", xp[p].text)
       ELSE XReturn(p, "error", can_post_reason(breaker, clock))
    /\ UNCHANGED << cfg, names, cooldown, breaker, x_pending, xlog, clock, ticks >>
    /\ UNCHANGED << queuevars, notifyvars >>

\* _do_post: ok, result = _post_to_x(text), and the breaker tripped when the
\* request failed.
x_post_to_x(p, ok) ==
    /\ xp[p].pc = "post"
    /\ xlog' = xlog \o Request(xp[p].text, clock, ok, xp[p].fn)
    /\ IF ok
       THEN /\ XAt(p, xp[p].fn, "record", xp[p].text)
            /\ UNCHANGED breaker
       ELSE /\ XReturn(p, "error", "X API error")
            /\ breaker' = trip_circuit_breaker(breaker, clock)
    /\ UNCHANGED << cfg, names, cooldown, x_pending, clock, ticks >>
    /\ UNCHANGED << queuevars, notifyvars >>

\* _do_post: the post recorded in the cooldown file, the breaker reset.
x_record(p) ==
    /\ xp[p].pc = "record"
    /\ cooldown' = Append(prune_old_records(cooldown, clock),
                          [ timestamp |-> clock,
                            content_hash |-> content_hash(xp[p].text) ])
    /\ breaker' = BreakerReset
    /\ IF xp[p].fn = "post_approved_tweet"
       THEN XAt(p, xp[p].fn, "remove", xp[p].text)
       ELSE XReturn(p, "posted", "")
    /\ UNCHANGED << cfg, names, x_pending, xlog, clock, ticks >>
    /\ UNCHANGED << queuevars, notifyvars >>

\* post_approved_tweet: _remove_first_pending() after the post.
x_remove(p) ==
    /\ xp[p].pc = "remove"
    /\ x_pending' = remove_first_pending(x_pending)
    /\ XReturn(p, "posted", "")
    /\ UNCHANGED << cfg, names, cooldown, breaker, xlog, clock, ticks >>
    /\ UNCHANGED << queuevars, notifyvars >>

NextRace ==
    \/ \E p \in XProcs, trigger \in Triggers, text \in Tweets :
            x_queue_tweet(p, trigger, text)
    \/ \E p \in XProcs : x_post_approved_tweet(p)
    \/ \E p \in XProcs : x_can_post(p)
    \/ \E p \in XProcs, ok \in BOOLEAN : x_post_to_x(p, ok)
    \/ \E p \in XProcs : x_record(p)
    \/ \E p \in XProcs : x_remove(p)
    \/ \E d \in DayGaps : Elapse(d)

SpecRace == InitX /\ [][NextRace]_vars

\* The requests that succeeded in the 24 hours up to request i.
PostedInDay(i) ==
    { j \in 1..Len(xlog) :
        /\ xlog[j].ok
        /\ xlog[j].at <= xlog[i].at
        /\ xlog[j].at > xlog[i].at - DAY }

\* C37: no 24 hours hold more than max_per_day successful posts.
C37_RateLimit ==
    \A i \in 1..Len(xlog) : Cardinality(PostedInDay(i)) <= MaxPerDay

\* C38: no text is posted successfully twice within 24 hours.
C38_NoDuplicatePost ==
    \A i, j \in 1..Len(xlog) :
        (i < j /\ xlog[i].ok /\ xlog[j].ok /\ xlog[i].text = xlog[j].text) =>
            xlog[j].at - xlog[i].at >= DAY

====
